---- MODULE Spec2Model ----
(***************************************************************************)
(* Model of the kalman_lab bench automation: the experiment runners        *)
(* (experiments/base_experiment.py, run_programmer.py, run_compute.py,     *)
(* run_voltage_measurement.py), the terminal tables (configs/) and the     *)
(* instrument drivers (instruments/).                                      *)
(*                                                                         *)
(* Units.  The code works in floating-point volts and amperes.  The model  *)
(* keeps every voltage in millivolts and every current in nanoamperes, so  *)
(* that all values the runners use are integers: VDD = 1.8 V = 1800,       *)
(* 0.1 V = 100, 0.001 A = 1000000, 100e-6 A = 100000, 10e-9 A = 10.        *)
(* All of them have far fewer than the 12 significant digits               *)
(* format_number keeps, so formatting never rounds them.                   *)
(*                                                                         *)
(* A method of a runner or driver is an operator from the object state s   *)
(* (a record, see Self) to the object state after the call.  A raised      *)
(* exception is the field exc; every operator leaves a state with a        *)
(* pending exception unchanged, which is how the exception propagates      *)
(* through the statements that follow the raise.                           *)
(***************************************************************************)
EXTENDS Integers, Sequences, FiniteSets, TLC

VARIABLES
    runner,           \* which ExperimentRunner subclass was constructed
    test_mode,        \* self.test_mode / instruments.base.TEST_MODE
    pc,               \* position of the script (main / run) being executed
    log,              \* every command written or queried, in order
    terminal_states,  \* self._terminal_states
    instruments,      \* keys of self._instruments
    exc,              \* pending exception ("" when none)
    csv,              \* the two CSV files of the run: the lines written
    measurement_num,  \* run()'s measurement_num
    mode_i,           \* index of the mode loop of ProgrammerExperiment.run
    irefp_i,          \* index of the IREFP loop
    prog_in_i,        \* index of the PROG_IN loop
    vrefp,            \* run()'s vrefp, measured when IREFP changes
    irefp_values,     \* self.irefp_values
    prog_in_values,   \* self.prog_in_values
    x1_values,        \* X1_values of the enabled Compute experiment
    current_ppg_state,\* ComputeExperiment._current_ppg_state ("" for None)
    glitches,         \* unparsable instrument responses seen so far
    bringup_end,      \* Len(log) when bring-up returned (-1 before)
    loop_end,         \* Len(log) when the measurement loop ended (-1 before)
    calls,            \* calls made so far by the API-level driver
    last_call,        \* the latest API-level call and its outcome
    experiment,       \* the experiment dictionary given to the generator
    combinations,     \* run()'s combinations (None before it is assigned)
    visited,          \* the combinations the for statement has bound so far
    faults_left,      \* failures the bus may still be given
    failed,           \* the commands whose resource.write raised, in order
    closed,           \* the instruments whose close() was called, in order
    applied           \* a function applied on its own: arguments and result

vars == <<runner, test_mode, pc, log, terminal_states, instruments, exc, csv,
          measurement_num, mode_i, irefp_i, prog_in_i, vrefp, irefp_values,
          prog_in_values, x1_values, current_ppg_state, glitches, bringup_end,
          loop_end, calls, last_call, experiment, combinations, visited,
          faults_left, failed, closed, applied>>

----------------------------------------------------------------------------
(* Bounds of the model.                                                    *)

\* longest IREFP list a run is given (0 = the list is left empty)
MaxIrefp == 1
\* writes of one run (or one client) that the bus may fail
MaxFaults == 1
\* the bus fails one of the first MaxFaultAt writes of a method
MaxFaultAt == 1

\* error queries allowed to one call of check_all_errors
MaxTries == 3
\* longest PROG_IN list a run is given
MaxProgIn == 1
\* most unparsable instrument responses in one run
MaxGlitch == 1
\* most entries an instrument's error queue holds at one check
MaxErrors == 1
\* most API-level calls made on one runner
MaxCalls == 2
\* longest X1_values list of the Compute experiment (0 = the list is empty)
MaxX1 == 2
\* longest value list of a sweep variable given to the generator
MaxSweep == 2

----------------------------------------------------------------------------
(* Settings (configs/programmer_settings.py, base_experiment.py).          *)

VDD == 1800
VCC == 5000
PROG_OUT_CURRENT == 100000
PROG_OUT_COMPLIANCE == VCC
VOLTAGE_SOURCE_COMPLIANCE == 1000000
CURRENT_SOURCE_COMPLIANCE == 2000
\* the literal 0.1 of the set_terminal_current overrides
LOW_COMPLIANCE == 100
\* SETTINGS.COUNTER_CONFIG["threshold"] = VCC*0.8
COUNTER_THRESHOLD == (VCC * 8) \div 10
\* one step of PROGRAMMER_PROG_IN_SWEEP (10e-9 A) and of IREFP_VALUES (100e-9 A)
PROG_IN_STEP == 10
IREFP_STEP == 100

None == <<>>
Some(x) == <<x>>

----------------------------------------------------------------------------
(* Terminal tables.                                                        *)

TerminalConfig(mt, inst, ch) ==
    [measurement_type |-> mt, instrument |-> inst, channel |-> ch]

\* PROGRAMMER_TERMINALS with the ground terminal VSS on an SMU channel
PROGRAMMER_TERMINALS_vss_on_smu ==
    [PROG_OUT   |-> TerminalConfig("I", "IV5270B", 1),
     ICELLMEAS  |-> TerminalConfig("V", "IV5270B", 2),
     IREFP      |-> TerminalConfig("I", "IV5270B", 3),
     PROG_IN    |-> TerminalConfig("I", "IV5270B", 4),
     VSS        |-> TerminalConfig("GNDU", "IV5270B", 8),
     VDD        |-> TerminalConfig("V", "IV5270B", 5),
     VCC        |-> TerminalConfig("V", "IV5270B", 6),
     ERASE_PROG |-> TerminalConfig("V", "IV5270B", 7),
     WR_ENB     |-> TerminalConfig("PPG", "PG81104A", 1),
     COUNTER    |-> TerminalConfig("COUNTER", "CT53230A", 1)]

\* PROGRAMMER_TERMINALS with ERASE_PROG moved onto PROG_IN's channel
PROGRAMMER_TERMINALS_aliased ==
    [PROG_OUT   |-> TerminalConfig("I", "IV5270B", 1),
     ICELLMEAS  |-> TerminalConfig("V", "IV5270B", 2),
     IREFP      |-> TerminalConfig("I", "IV5270B", 3),
     PROG_IN    |-> TerminalConfig("I", "IV5270B", 4),
     VSS        |-> TerminalConfig("GNDU", "IV5270B", 0),
     VDD        |-> TerminalConfig("V", "IV5270B", 5),
     VCC        |-> TerminalConfig("V", "IV5270B", 6),
     ERASE_PROG |-> TerminalConfig("V", "IV5270B", 4),
     WR_ENB     |-> TerminalConfig("PPG", "PG81104A", 1),
     COUNTER    |-> TerminalConfig("COUNTER", "CT53230A", 1)]

PROGRAMMER_TERMINALS ==
    [PROG_OUT   |-> TerminalConfig("I", "IV5270B", 1),
     ICELLMEAS  |-> TerminalConfig("V", "IV5270B", 2),
     IREFP      |-> TerminalConfig("I", "IV5270B", 3),
     PROG_IN    |-> TerminalConfig("I", "IV5270B", 4),
     VSS        |-> TerminalConfig("GNDU", "IV5270B", 0),
     VDD        |-> TerminalConfig("V", "IV5270B", 5),
     VCC        |-> TerminalConfig("V", "IV5270B", 6),
     ERASE_PROG |-> TerminalConfig("V", "IV5270B", 7),
     WR_ENB     |-> TerminalConfig("PPG", "PG81104A", 1),
     COUNTER    |-> TerminalConfig("COUNTER", "CT53230A", 1)]

PROGRAMMER_CONFIG ==
    [name |-> "Programmer",
     terminals |-> PROGRAMMER_TERMINALS,
     instruments_used |-> <<"IV5270B", "PG81104A", "CT53230A">>]

\* configs/compute.py is not among the repository's files.  The table is
\* rebuilt from what its users say about it: the channel comments of
\* run_voltage_measurement.py (0 VSS, 5 TRIM1, 6 TRIM2, 7 F11, 8 F12 on the
\* 5270B; 1 X2, 2 KGAIN1, 3 KGAIN2, 4 IREFP, 21 VDD, 22 VCC on the 4156B),
\* execute_spot_measurement (X1, IMEAS, OUT1, OUT2 on the 5270B) and
\* set_ppg_state (ERASE_PROG on the pulse generator).
COMPUTE_TERMINALS ==
    [OUT1       |-> TerminalConfig("V", "IV5270B", 1),
     OUT2       |-> TerminalConfig("V", "IV5270B", 2),
     X1         |-> TerminalConfig("I", "IV5270B", 3),
     IMEAS      |-> TerminalConfig("I", "IV5270B", 4),
     VSS        |-> TerminalConfig("GNDU", "IV5270B", 0),
     TRIM1      |-> TerminalConfig("I", "IV5270B", 5),
     TRIM2      |-> TerminalConfig("I", "IV5270B", 6),
     F11        |-> TerminalConfig("I", "IV5270B", 7),
     F12        |-> TerminalConfig("I", "IV5270B", 8),
     X2         |-> TerminalConfig("I", "IV4156B", 1),
     KGAIN1     |-> TerminalConfig("I", "IV4156B", 2),
     KGAIN2     |-> TerminalConfig("I", "IV4156B", 3),
     IREFP      |-> TerminalConfig("I", "IV4156B", 4),
     VDD        |-> TerminalConfig("VSU", "IV4156B", 21),
     VCC        |-> TerminalConfig("VSU", "IV4156B", 22),
     ERASE_PROG |-> TerminalConfig("PPG", "PG81104A", 1)]

COMPUTE_CONFIG ==
    [name |-> "Compute",
     terminals |-> COMPUTE_TERMINALS,
     instruments_used |-> <<"IV5270B", "IV4156B", "PG81104A">>]

COMPUTE_FIXED_CURRENT_TERMINALS ==
    <<"KGAIN1", "KGAIN2", "TRIM1", "TRIM2", "X2", "IREFP", "F11", "F12">>

Runners == {"Programmer", "Compute", "VoltageMeasurement"}

\* self.config: the ExperimentConfig the constructor passes to the base class
config == IF runner = "Programmer" THEN PROGRAMMER_CONFIG ELSE COMPUTE_CONFIG

Range(f) == {f[i] : i \in DOMAIN f}

----------------------------------------------------------------------------
(* instruments/base.py                                                     *)

\* format_number(value): the text of a number, kept as its sign and its
\* magnitude.  A zero (0, 0.0 or -0.0) is the unsigned text "0".
format_number(value) ==
    IF value = 0 THEN [neg |-> FALSE, mag |-> 0]
    ELSE [neg |-> value < 0, mag |-> IF value < 0 THEN -value ELSE value]

\* what an instrument reads back from the text format_number produced
parse_number(text) == IF text.neg THEN -text.mag ELSE text.mag

\* one command string: the instrument it goes to, its mnemonic, the channels
\* and the formatted numbers it carries, and its textual argument
Cmd(inst, op, chs, args, str) ==
    [inst |-> inst, op |-> op, chs |-> chs, args |-> args, str |-> str]

\* InstrumentBase.write: the command reaches the instrument (in TEST_MODE,
\* the command file) unless an exception is already propagating; when
\* resource.write raises, the error is logged and raised again
write(s, c) ==
    IF s.exc # "" THEN s
    ELSE IF s.fault = 1
    THEN [s EXCEPT !.exc = "VisaIOError", !.failed = Append(@, c),
                   !.fault = 0]
    ELSE [s EXCEPT !.log = Append(@, c),
                   !.fault = IF @ = 0 THEN 0 ELSE @ - 1]

\* InstrumentBase.query: the command part of a query; the caller models the
\* response
query(s, c) == write(s, c)

idn_query(s, inst) == query(s, Cmd(inst, "*IDN?", <<>>, <<>>, ""))

----------------------------------------------------------------------------
(* instruments/iv_5270b.py                                                 *)

IV5270B_reset(s) ==
    write(write(s, Cmd("IV5270B", "*RST", <<>>, <<>>, "")),
          Cmd("IV5270B", "*CLS", <<>>, <<>>, ""))

IV5270B_enable_channels(s, channels) ==
    write(s, Cmd("IV5270B", "CN", channels, <<>>, ""))

IV5270B_idle(s) == write(s, Cmd("IV5270B", "CL", <<>>, <<>>, ""))

IV5270B_set_voltage(s, channel, voltage, compliance) ==
    write(s, Cmd("IV5270B", "DV", <<channel>>,
                 <<format_number(voltage), format_number(compliance)>>, ""))

\* IV5270B.set_current without the negation
IV5270B_set_current_unnegated(s, channel, current, compliance) ==
    write(s, Cmd("IV5270B", "DI", <<channel>>,
                 <<format_number(current), format_number(compliance)>>, ""))

IV5270B_set_current(s, channel, current, compliance) ==
    LET negated_current == -current
    IN write(s, Cmd("IV5270B", "DI", <<channel>>,
                    <<format_number(negated_current),
                      format_number(compliance)>>, ""))

IV5270B_set_measurement_mode(s, mode, channels) ==
    write(s, Cmd("IV5270B", "MM", channels, <<format_number(mode)>>, ""))

IV5270B_execute_measurement(s) ==
    write(s, Cmd("IV5270B", "XE", <<>>, <<>>, ""))

\* IV5270B.set_wait_time is called by ComputeExperiment.initialize_all_channels
\* but is not in the driver file of the repository; it is modelled as the one
\* WAT command the caller's comment gives ("WAT 2,1,0.01").
IV5270B_set_wait_time(s, mode, hold, delay) ==
    write(s, Cmd("IV5270B", "WAT", <<>>, <<>>, "2,1,0.01"))

\* IV5270B.error_query: ERR?, and EMG? <code> when the code is not 0
IV5270B_error_query(s, is_error) ==
    LET s1 == query(s, Cmd("IV5270B", "ERR?", <<>>, <<>>, ""))
    IN IF is_error THEN query(s1, Cmd("IV5270B", "EMG?", <<>>, <<>>, ""))
       ELSE s1

----------------------------------------------------------------------------
(* instruments/iv_4156b.py                                                 *)

IV4156B_reset(s) ==
    write(write(s, Cmd("IV4156B", "*RST", <<>>, <<>>, "")),
          Cmd("IV4156B", "US", <<>>, <<>>, ""))

IV4156B_enable_channels(s, channels) ==
    write(s, Cmd("IV4156B", "CN", channels, <<>>, ""))

IV4156B_idle(s) == write(s, Cmd("IV4156B", "CL", <<>>, <<>>, ""))

IV4156B_set_voltage(s, channel, voltage, compliance) ==
    write(s, Cmd("IV4156B", "DV", <<channel>>,
                 <<format_number(voltage), format_number(compliance)>>, ""))

IV4156B_set_current(s, channel, current, compliance) ==
    LET negated_current == -current
    IN write(s, Cmd("IV4156B", "DI", <<channel>>,
                    <<format_number(negated_current),
                      format_number(compliance)>>, ""))

IV4156B_set_vsu_voltage(s, vsu_channel, voltage) ==
    write(s, Cmd("IV4156B", "DV", <<vsu_channel>>,
                 <<format_number(voltage)>>, ""))

IV4156B_error_query(s) == query(s, Cmd("IV4156B", "ERR?", <<>>, <<>>, ""))

IV4156B_set_measurement_mode(s, mode, channels) ==
    write(s, Cmd("IV4156B", "MM", channels, <<format_number(mode)>>, ""))

IV4156B_execute_measurement(s) ==
    write(s, Cmd("IV4156B", "XE", <<>>, <<>>, ""))

\* IV4156B.read_measurement_data: the RMD? it writes (the data read back is
\* the caller's)
IV4156B_read_measurement_data(s) ==
    write(s, Cmd("IV4156B", "RMD?", <<>>, <<>>, ""))

----------------------------------------------------------------------------
(* instruments/pg_81104a.py                                                *)

PG(op, chs, args, str) == Cmd("PG81104A", op, chs, args, str)

\* PG81104A.reset, with the _configure_output_impedance it ends with
PG81104A_reset(s) ==
    LET s1 == write(s, PG("*RST", <<>>, <<>>, ""))
        s2 == write(s1, PG(":DISP", <<>>, <<>>, "OFF"))
        s3 == write(s2, PG(":OUTP:IMP:EXT", <<1>>, <<>>, "1E6 OHM"))
    IN write(s3, PG(":OUTP:IMP:EXT", <<2>>, <<>>, "1E6 OHM"))

\* PG81104A.error_query: the write of :SYST:ERR? (a read follows)
PG81104A_error_query(s) == write(s, PG(":SYST:ERR?", <<>>, <<>>, ""))

PG81104A_enable_output(s, channel) ==
    write(s, PG(":OUTP", <<channel>>, <<>>, "ON"))

PG81104A_idle(s) ==
    write(write(s, PG(":OUTP", <<1>>, <<>>, "OFF")),
          PG(":OUTP", <<2>>, <<>>, "OFF"))

PG81104A_set_arm_source(s, source) ==
    write(s, PG(":ARM:SOUR", <<>>, <<>>, source))

PG81104A_set_trigger_source(s, source) ==
    write(s, PG(":TRIG:SOUR", <<>>, <<>>, source))

PG81104A_set_trigger_count(s, count) ==
    write(s, PG(":TRIG:COUN", <<>>, <<format_number(count)>>, ""))

PG81104A_trigger(s) == write(s, PG("*TRG", <<>>, <<>>, ""))

PG81104A_set_period(s, period) ==
    write(s, PG(":PULS:PER", <<>>, <<>>, period))

PG81104A_set_pulse_width(s, channel, width) ==
    write(s, PG(":PULS:WIDT", <<channel>>, <<>>, width))

PG81104A_set_transition(s, channel, transition) ==
    write(s, PG(":PULS:TRAN", <<channel>>, <<>>, transition))

PG81104A_set_voltage_high(s, channel, voltage) ==
    write(s, PG(":VOLT:HIGH", <<channel>>, <<format_number(voltage)>>, ""))

PG81104A_set_voltage_low(s, channel, voltage) ==
    write(s, PG(":VOLT:LOW", <<channel>>, <<format_number(voltage)>>, ""))

PG81104A_set_polarity(s, channel, polarity) ==
    write(s, PG(":OUTP:POL", <<channel>>, <<>>, polarity))

PG81104A_set_pattern_mode(s, enabled) ==
    write(s, PG(":DIG:PATT", <<>>, <<>>, IF enabled THEN "ON" ELSE "OFF"))

\* the 0.001 V that set_dc_output programs as HIGH for a 0 V output
DC_HIGH_FOR_ZERO == 1

PG81104A_set_dc_output(s, channel, voltage) ==
    LET s1 == PG81104A_set_voltage_low(s, channel, 0)
        s2 == IF voltage = 0
              THEN PG81104A_set_voltage_high(
                       PG81104A_set_polarity(s1, channel, "NORM"),
                       channel, DC_HIGH_FOR_ZERO)
              ELSE PG81104A_set_voltage_high(
                       PG81104A_set_polarity(s1, channel, "INV"),
                       channel, voltage)
        s3 == PG81104A_set_arm_source(s2, "MAN")
        s4 == PG81104A_set_trigger_count(s3, 1)
        s5 == PG81104A_set_trigger_source(s4, "IMM")
    IN PG81104A_enable_output(s5, channel)

----------------------------------------------------------------------------
(* instruments/ct_53230a.py                                                *)

CT(op, chs, args, str) == Cmd("CT53230A", op, chs, args, str)

CT53230A_reset(s) ==
    write(write(s, CT("*RST", <<>>, <<>>, "")), CT("*CLS", <<>>, <<>>, ""))

CT53230A_error_query(s) == query(s, CT("SYST:ERR?", <<>>, <<>>, ""))

CT53230A_configure_time_interval(s, start_channel, stop_channel) ==
    write(s, CT("CONF:TINT", <<start_channel, stop_channel>>, <<>>, ""))

CT53230A_set_coupling(s, channel, coupling) ==
    write(s, CT("INP:COUP", <<channel>>, <<>>, coupling))

CT53230A_set_impedance(s, channel, impedance) ==
    write(s, CT("INP:IMP", <<channel>>, <<format_number(impedance)>>, ""))

\* CT53230A.set_input_range, set_trigger_levels and set_slopes are called by
\* ProgrammerExperiment._configure_counter but are not in the driver file
\* of the repository; each is modelled as the one configuration command its
\* name and its caller's comments describe.
CT53230A_set_input_range(s, channel, input_range) ==
    write(s, CT("INP:RANG", <<channel>>, <<format_number(input_range)>>, ""))

CT53230A_set_trigger_levels(s, channel, start_level, stop_level) ==
    write(s, CT("INP:LEV", <<channel>>,
                <<format_number(start_level), format_number(stop_level)>>, ""))

CT53230A_set_slopes(s, channel, start_slope, stop_slope) ==
    write(s, CT("INP:SLOP", <<channel>>, <<>>, start_slope))

CT53230A_initiate(s) == write(s, CT("INIT", <<>>, <<>>, ""))

\* CT53230A.fetch: the FETC? query (the value returned is the caller's)
CT53230A_fetch(s) == query(s, CT("FETC?", <<>>, <<>>, ""))

\* CT53230A.idle, which is abort()
CT53230A_idle(s) == write(s, CT("ABOR", <<>>, <<>>, ""))

----------------------------------------------------------------------------
(* experiments/base_experiment.py: ExperimentRunner                        *)

\* the runner object: the fields its methods read and write
Self ==
    [log |-> log, ts |-> terminal_states, insts |-> instruments, exc |-> exc,
     ppg |-> current_ppg_state, fault |-> 0, open_fault |-> 0,
     failed |-> failed,
     closed |-> closed]

\* except Exception as e: self.logger.error(...)
Logged(s) == [s EXCEPT !.exc = ""]

\* which write of the method about to run the bus fails (0 = none): only
\* hardware fails, and only while the bus has failures left
FaultChoices ==
    IF test_mode \/ faults_left = 0 THEN {0} ELSE 0..MaxFaultAt

\* the runner on a bus that fails the f-th write from now
Armed(f) == [Self EXCEPT !.fault = f]

\* which of the connections that startup opens fails (0 for none): only
\* hardware fails, and only while the bus has failures left
OpenChoices ==
    IF test_mode \/ faults_left = 0 THEN {0}
    ELSE 0..Len(config.instruments_used)

Raise(s, e) == IF s.exc # "" THEN s ELSE [s EXCEPT !.exc = e]

DEFAULT_ADDRESSES == {"CT53230A", "IV4156B", "IV5270B", "PG81104A"}

\* _get_instrument creating a driver at every call
_get_instrument_every_call(s, inst_type) ==
    IF s.exc # "" THEN s
    ELSE IF inst_type \notin {"CT53230A", "IV4156B", "IV5270B", "PG81104A"}
    THEN [s EXCEPT !.exc = "ValueError"]
    ELSE [s EXCEPT !.insts = Append(@, inst_type)]

\* the connection that InstrumentBase.__init__ could not open
Connection(inst_type) == Cmd(inst_type, "open_resource", <<>>, <<>>, "")

\* _get_instrument: the driver is created on first use and kept; the
\* constructor opens the connection, and what open_resource raises leaves
\* no entry in the map
_get_instrument(s, inst_type) ==
    IF s.exc # "" THEN s
    ELSE IF inst_type \in Range(s.insts) THEN s
    ELSE IF inst_type \notin DEFAULT_ADDRESSES THEN Raise(s, "ValueError")
    ELSE IF s.open_fault = 1
    THEN [s EXCEPT !.exc = "VisaIOError",
                   !.failed = Append(@, Connection(inst_type)),
                   !.open_fault = 0]
    ELSE [s EXCEPT !.insts = Append(@, inst_type),
                   !.open_fault = IF @ = 0 THEN 0 ELSE @ - 1]

RECURSIVE get_each(_, _)
get_each(s, todo) ==
    IF todo = <<>> THEN s
    ELSE get_each(_get_instrument(s, Head(todo)), Tail(todo))

initialize_instruments(s) == get_each(s, config.instruments_used)

reset(s, inst) ==
    CASE inst = "IV5270B" -> IV5270B_reset(s)
      [] inst = "IV4156B" -> IV4156B_reset(s)
      [] inst = "PG81104A" -> PG81104A_reset(s)
      [] inst = "CT53230A" -> CT53230A_reset(s)

idle(s, inst) ==
    CASE inst = "IV5270B" -> IV5270B_idle(s)
      [] inst = "IV4156B" -> IV4156B_idle(s)
      [] inst = "PG81104A" -> PG81104A_idle(s)
      [] inst = "CT53230A" -> CT53230A_idle(s)

RECURSIVE reset_each(_, _)
reset_each(s, todo) ==
    IF todo = <<>> THEN s
    ELSE reset_each(Logged(reset(s, Head(todo))), Tail(todo))

reset_all(s) == IF s.exc # "" THEN s ELSE reset_each(s, s.insts)

RECURSIVE idn_each(_, _)
idn_each(s, todo) ==
    IF todo = <<>> THEN s
    ELSE idn_each(Logged(idn_query(s, Head(todo))), Tail(todo))

idn_all(s) == IF s.exc # "" THEN s ELSE idn_each(s, s.insts)

RECURSIVE idle_each(_, _)
idle_each(s, todo) ==
    IF todo = <<>> THEN s
    ELSE idle_each(Logged(idle(s, Head(todo))), Tail(todo))

\* the loop of idle_all without its try statement
RECURSIVE idle_each_raising(_, _)
idle_each_raising(s, todo) ==
    IF todo = <<>> THEN s
    ELSE idle_each_raising(idle(s, Head(todo)), Tail(todo))

idle_all_raising(s) ==
    IF s.exc # "" THEN s ELSE idle_each_raising(s, s.insts)

\* idle_all: every instrument is idled; a failure is logged and the loop
\* goes on
idle_all(s) == IF s.exc # "" THEN s ELSE idle_each(s, s.insts)

\* close_all: InstrumentBase.close sends nothing and raises nothing; every
\* instrument is closed (recorded with the number of writes attempted before
\* it) and the map is cleared
close_all(s) ==
    IF s.exc # "" THEN s
    ELSE [s EXCEPT !.closed =
                       @ \o [k \in 1..Len(s.insts) |->
                                [inst |-> s.insts[k],
                                 writes |-> Len(s.log) + Len(s.failed)]],
                   !.insts = <<>>]

\* does get_terminal_config(terminal) return (TRUE) or raise (FALSE)
get_terminal_config(terminal) == terminal \in DOMAIN config.terminals

\* self._terminal_states[terminal] = value, the last statement of both
\* set_terminal methods: reached only when the instrument call returned
record_terminal_state(s, terminal, value) ==
    IF s.exc # "" THEN s ELSE [s EXCEPT !.ts[terminal] = Some(value)]

\* set_terminal_voltage from the instrument lookup to the instrument call,
\* for a terminal whose TerminalConfig is cfg
voltage_to_instrument(s, cfg, voltage, comp) ==
    IF cfg.instrument = "IV5270B"
    THEN IV5270B_set_voltage(s, cfg.channel, voltage, comp)
    ELSE IF cfg.instrument = "IV4156B"
    THEN IF cfg.channel \in {21, 22}
         THEN IV4156B_set_vsu_voltage(s, cfg.channel, voltage)
         ELSE IV4156B_set_voltage(s, cfg.channel, voltage, comp)
    ELSE s

\* set_terminal_voltage with the kind of the terminal tested after the
\* instrument call
set_terminal_voltage_on_late_test(s, terminal, cfg, voltage, comp) ==
    IF cfg.measurement_type \notin {"V", "VSU"}
    THEN Raise(voltage_to_instrument(_get_instrument(s, cfg.instrument), cfg,
                                     voltage, comp),
               "ValueError")
    ELSE record_terminal_state(
             voltage_to_instrument(_get_instrument(s, cfg.instrument), cfg,
                                   voltage, comp),
             terminal, voltage)

set_terminal_voltage_on(s, terminal, cfg, voltage, comp) ==
    IF cfg.measurement_type \notin {"V", "VSU"} THEN Raise(s, "ValueError")
    ELSE record_terminal_state(
             voltage_to_instrument(_get_instrument(s, cfg.instrument), cfg,
                                   voltage, comp),
             terminal, voltage)

set_terminal_voltage(s, terminal, voltage, compliance) ==
    IF s.exc # "" THEN s
    ELSE IF ~get_terminal_config(terminal) THEN Raise(s, "ValueError")
    ELSE set_terminal_voltage_on(
             s, terminal, config.terminals[terminal], voltage,
             IF compliance = None THEN VOLTAGE_SOURCE_COMPLIANCE
             ELSE compliance[1])

\* set_terminal_current from the instrument lookup to the instrument call
current_to_instrument(s, cfg, current, comp) ==
    IF cfg.instrument = "IV5270B"
    THEN IV5270B_set_current(s, cfg.channel, current, comp)
    ELSE IF cfg.instrument = "IV4156B"
    THEN IV4156B_set_current(s, cfg.channel, current, comp)
    ELSE s

set_terminal_current_on_recorded_first(s, terminal, cfg, current, comp) ==
    IF cfg.measurement_type # "I" THEN Raise(s, "ValueError")
    ELSE current_to_instrument(
             _get_instrument(
                 [s EXCEPT !.ts[terminal] = Some(current)],
                 cfg.instrument),
             cfg, current, comp)

set_terminal_current_on(s, terminal, cfg, current, comp) ==
    IF cfg.measurement_type # "I" THEN Raise(s, "ValueError")
    ELSE record_terminal_state(
             current_to_instrument(_get_instrument(s, cfg.instrument), cfg,
                                   current, comp),
             terminal, current)

ExperimentRunner_set_terminal_current(s, terminal, current, compliance) ==
    IF s.exc # "" THEN s
    ELSE IF ~get_terminal_config(terminal) THEN Raise(s, "ValueError")
    ELSE set_terminal_current_on(
             s, terminal, config.terminals[terminal], current,
             IF compliance = None THEN CURRENT_SOURCE_COMPLIANCE
             ELSE compliance[1])

\* the override with the sign test of the policy turned around
ProgrammerExperiment_set_terminal_current_flipped(s, terminal, current, compliance) ==
    ExperimentRunner_set_terminal_current(s, terminal, current,
        IF compliance = None
        THEN IF current < 0 THEN Some(LOW_COMPLIANCE)
             ELSE Some(CURRENT_SOURCE_COMPLIANCE)
        ELSE compliance)

\* run_programmer.py: the override of set_terminal_current
ProgrammerExperiment_set_terminal_current(s, terminal, current, compliance) ==
    ExperimentRunner_set_terminal_current(s, terminal, current,
        IF compliance = None
        THEN IF current > 0 THEN Some(LOW_COMPLIANCE)
             ELSE Some(CURRENT_SOURCE_COMPLIANCE)
        ELSE compliance)

\* run_compute.py: the override of set_terminal_current
ComputeExperiment_set_terminal_current(s, terminal, current, compliance) ==
    ExperimentRunner_set_terminal_current(s, terminal, current,
        IF compliance = None
        THEN IF current > 0 THEN Some(LOW_COMPLIANCE)
             ELSE Some(CURRENT_SOURCE_COMPLIANCE)
        ELSE compliance)

\* self.set_terminal_current: the method of the constructed class
\* (VoltageMeasurementExperiment defines none and inherits the base one)
set_terminal_current(s, terminal, current, compliance) ==
    CASE runner = "Programmer" ->
             ProgrammerExperiment_set_terminal_current(s, terminal, current,
                                                       compliance)
      [] runner = "Compute" ->
             ComputeExperiment_set_terminal_current(s, terminal, current,
                                                    compliance)
      [] OTHER ->
             ExperimentRunner_set_terminal_current(s, terminal, current,
                                                   compliance)

enable_channels(s, inst, channels) ==
    IF inst = "IV5270B" THEN IV5270B_enable_channels(s, channels)
    ELSE IF inst = "IV4156B" THEN IV4156B_enable_channels(s, channels)
    ELSE Raise(s, "AttributeError")

enable_gndu_on(s, cfg) ==
    IF cfg.measurement_type # "GNDU" THEN Raise(s, "ValueError")
    ELSE enable_channels(_get_instrument(s, cfg.instrument),
                         cfg.instrument, <<cfg.channel>>)

\* enable_gndu with the 5270B looked up before the name is resolved
enable_gndu_instrument_first(s, terminal) ==
    IF s.exc # "" THEN s
    ELSE IF ~get_terminal_config(terminal)
    THEN Raise(_get_instrument(s, "IV5270B"), "ValueError")
    ELSE enable_gndu_on(s, config.terminals[terminal])

enable_gndu(s, terminal) ==
    IF s.exc # "" THEN s
    ELSE IF ~get_terminal_config(terminal) THEN Raise(s, "ValueError")
    ELSE enable_gndu_on(s, config.terminals[terminal])

set_ppg_dc_mode_on(s, cfg, voltage) ==
    IF cfg.measurement_type # "PPG" THEN Raise(s, "ValueError")
    ELSE PG81104A_set_dc_output(_get_instrument(s, cfg.instrument),
                                cfg.channel, voltage)

set_ppg_dc_mode(s, terminal, voltage) ==
    IF s.exc # "" THEN s
    ELSE IF ~get_terminal_config(terminal) THEN Raise(s, "ValueError")
    ELSE set_ppg_dc_mode_on(s, config.terminals[terminal], voltage)

\* PG81104A.pulse_single_channel(pulse_width, period, vhigh=, vlow=, count=,
\* channel=), rise_time and default left at "1US" and "low"
PG81104A_pulse_single_channel(s, pulse_width, period, vhigh, vlow, count, channel) ==
    LET s1 == PG81104A_set_trigger_source(
                  PG81104A_set_trigger_count(
                      PG81104A_set_pattern_mode(
                          PG81104A_set_arm_source(s, "MAN"), FALSE),
                      count),
                  "IMM")
        s2 == PG81104A_set_polarity(PG81104A_set_period(s1, period), channel,
                                    "NORM")
        s3 == PG81104A_set_voltage_low(
                  PG81104A_set_voltage_high(s2, channel, vhigh), channel, vlow)
        s4 == PG81104A_set_transition(
                  PG81104A_set_pulse_width(s3, channel, pulse_width), channel,
                  "1US")
    IN PG81104A_idle(PG81104A_trigger(PG81104A_enable_output(s4, channel)))

set_pulse_on(s, cfg, vhigh, vlow, width) ==
    IF cfg.measurement_type # "PPG" THEN Raise(s, "ValueError")
    ELSE PG81104A_pulse_single_channel(_get_instrument(s, cfg.instrument),
                                       width, "1US", vhigh, vlow, 1,
                                       cfg.channel)

\* set_pulse(terminal, vhigh, vlow, width), period and count left at their
\* defaults
set_pulse(s, terminal, vhigh, vlow, width) ==
    IF s.exc # "" THEN s
    ELSE IF ~get_terminal_config(terminal) THEN Raise(s, "ValueError")
    ELSE set_pulse_on(s, config.terminals[terminal], vhigh, vlow, width)

\* CT53230A.measure_frequency(channel, record=False): the query
CT53230A_measure_frequency(s, channel) ==
    query(s, CT("MEAS:FREQ?", <<channel>>, <<>>, ""))

measure_frequency_on(s, cfg) ==
    IF cfg.measurement_type # "COUNTER" THEN Raise(s, "ValueError")
    ELSE CT53230A_measure_frequency(_get_instrument(s, cfg.instrument),
                                    cfg.channel)

\* measure_frequency(terminal, record=False)
measure_frequency(s, terminal) ==
    IF s.exc # "" THEN s
    ELSE IF ~get_terminal_config(terminal) THEN Raise(s, "ValueError")
    ELSE measure_frequency_on(s, config.terminals[terminal])

\* measure_terminal_current once inst = self._get_instrument(cfg.instrument)
\* is at hand: the spot measurement (read_data of the 5270B sends nothing)
measure_terminal_current_on(inst, cfg) ==
    IF cfg.instrument = "IV5270B"
    THEN IV5270B_execute_measurement(
             IV5270B_set_measurement_mode(inst, 1, <<cfg.channel>>))
    ELSE IF cfg.instrument = "IV4156B"
    THEN IV4156B_read_measurement_data(
             IV4156B_execute_measurement(
                 IV4156B_set_measurement_mode(inst, 1, <<cfg.channel>>)))
    ELSE inst

\* measure_terminal_current(terminal, record=False)
measure_terminal_current(s, terminal) ==
    IF s.exc # "" THEN s
    ELSE IF ~get_terminal_config(terminal) THEN Raise(s, "ValueError")
    ELSE measure_terminal_current_on(
             _get_instrument(s, config.terminals[terminal].instrument),
             config.terminals[terminal])

startup(s) == idn_all(reset_all(initialize_instruments(s)))

ExperimentRunner_shutdown(s) == close_all(idle_all(s))

----------------------------------------------------------------------------
(* run_programmer.py: the pulse/counter handshake methods                  *)

trigger_wr_enb(s) == PG81104A_trigger(_get_instrument(s, "PG81104A"))

initiate_time_interval(s) ==
    CT53230A_initiate(_get_instrument(s, "CT53230A"))

fetch_time_interval(s) == CT53230A_fetch(_get_instrument(s, "CT53230A"))

----------------------------------------------------------------------------
(* The error-queue check.                                                  *)

error_query(s, inst, is_error) ==
    CASE inst = "IV5270B" -> IV5270B_error_query(s, is_error)
      [] inst = "IV4156B" -> IV4156B_error_query(s)
      [] inst = "PG81104A" -> PG81104A_error_query(s)
      [] inst = "CT53230A" -> CT53230A_error_query(s)

\* InstrumentBase.check_all_errors on an instrument whose queue holds k
\* entries (k below max_tries): k error responses, then "no error"; in
\* TEST_MODE no query at all
RECURSIVE check_all_errors(_, _, _)
check_all_errors(s, inst, k) ==
    IF test_mode THEN s
    ELSE IF k = 0 THEN error_query(s, inst, FALSE)
    ELSE check_all_errors(error_query(s, inst, TRUE), inst, k - 1)

\* the error queues at one check: entries held by each instrument
ErrorQueues ==
    IF test_mode THEN {[i \in DEFAULT_ADDRESSES |-> 0]}
    ELSE [DEFAULT_ADDRESSES -> 0..MaxErrors]

\* ExperimentRunner.check_all_instrument_errors is called by the runners but
\* is not in base_experiment.py.  It is modelled as check_all_errors on every
\* instrument of self._instruments, in the order they were created; the
\* dictionary it returns is the queues of these instruments.
RECURSIVE check_each(_, _, _)
check_each(s, todo, queues) ==
    IF todo = <<>> THEN s
    ELSE check_each(check_all_errors(s, Head(todo), queues[Head(todo)]),
                    Tail(todo), queues)

check_all_instrument_errors(s, queues) == check_each(s, s.insts, queues)

\* the instruments of self._instruments that reported at least one error
Reported(s, queues) ==
    IF test_mode THEN {} ELSE {i \in Range(s.insts) : queues[i] > 0}

\* ExperimentRunner.report_and_exit_on_errors is not in base_experiment.py
\* either: it is modelled as logging the errors and leaving the program
\* (SystemExit) when any instrument reported one.
report_and_exit_on_errors(s, reported) ==
    IF reported # {} THEN Raise(s, "SystemExit") ELSE s

\* the filter with the counter treated like every other instrument
report_and_exit_on_errors_filtered_all(s, reported) ==
    report_and_exit_on_errors(s, reported)

\* ProgrammerExperiment.report_and_exit_on_errors_filtered
report_and_exit_on_errors_filtered(s, reported) ==
    LET filtered_errors == reported \ {"CT53230A"}
    IN IF reported = {} THEN s
       ELSE IF filtered_errors # {}
       THEN report_and_exit_on_errors(s, filtered_errors)
       ELSE s

\* all_errors = self.check_all_instrument_errors();
\* self.report_and_exit_on_errors_filtered(all_errors)
report_filtered(checked, queues) ==
    report_and_exit_on_errors_filtered(checked, Reported(checked, queues))

check_and_report_filtered(s, queues) ==
    report_filtered(check_all_instrument_errors(s, queues), queues)

\* the check made after every measurement
ProgrammerExperiment_check_after_every(s, num, queues) ==
    check_and_report_filtered(s, queues)

\* ProgrammerExperiment.run: if measurement_num == 1: the error check after
\* the first measurement
ProgrammerExperiment_check_after_first(s, num, queues) ==
    IF num = 1 THEN check_and_report_filtered(s, queues) ELSE s

----------------------------------------------------------------------------
(* run_programmer.py: bring-up                                             *)

_configure_ppg(s) ==
    LET channel == PROGRAMMER_TERMINALS["WR_ENB"].channel
        s0 == _get_instrument(s, "PG81104A")
        s1 == PG81104A_set_arm_source(s0, "MAN")
        s2 == PG81104A_set_pattern_mode(s1, FALSE)
        s3 == PG81104A_set_trigger_count(s2, 1)
        s4 == PG81104A_set_trigger_source(s3, "IMM")
        s5 == PG81104A_set_period(s4, "10MS")
        s6 == PG81104A_set_polarity(s5, channel, "INV")
        s7 == PG81104A_set_voltage_high(s6, channel, VCC)
        s8 == PG81104A_set_voltage_low(s7, channel, 0)
        s9 == PG81104A_set_pulse_width(s8, channel, "500MS")
        s10 == PG81104A_set_transition(s9, channel, "10NS")
    IN PG81104A_enable_output(s10, channel)

\* _configure_voltage_sources passing PROG_OUT_CURRENT itself to
\* set_terminal_current
_configure_voltage_sources_plain(s) ==
    LET s0 == _get_instrument(s, "IV5270B")
        s1 == set_terminal_voltage(s0, "ICELLMEAS", VDD \div 2, None)
        s2 == set_terminal_voltage(s1, "VDD", VDD, None)
        s3 == set_terminal_voltage(s2, "VCC", VCC, None)
        s4 == set_terminal_voltage(s3, "ERASE_PROG", VCC, None)
    IN set_terminal_current(s4, "PROG_OUT", PROG_OUT_CURRENT,
                            Some(PROG_OUT_COMPLIANCE))

\* _configure_voltage_sources(mode="ERASE"), the only way it is called
_configure_voltage_sources(s) ==
    LET s0 == _get_instrument(s, "IV5270B")
        s1 == set_terminal_voltage(s0, "ICELLMEAS", VDD \div 2, None)
        s2 == set_terminal_voltage(s1, "VDD", VDD, None)
        s3 == set_terminal_voltage(s2, "VCC", VCC, None)
        s4 == set_terminal_voltage(s3, "ERASE_PROG", VCC, None)
    IN set_terminal_current(s4, "PROG_OUT", -PROG_OUT_CURRENT,
                            Some(PROG_OUT_COMPLIANCE))

\* the channel, coupling, impedance and slopes of PROGRAMMER_COUNTER_CONFIG;
\* the input range is 5 because VCC is not above 5.01 V
_configure_counter(s) ==
    LET channel == 1
        s0 == _get_instrument(s, "CT53230A")
        s1 == CT53230A_configure_time_interval(s0, channel, channel)
        s2 == CT53230A_set_input_range(s1, channel,
                                       IF VCC > 5010 THEN 50 ELSE 5)
        s3 == CT53230A_set_coupling(s2, channel, "DC")
        s4 == CT53230A_set_impedance(s3, channel, 1000000)
        s5 == CT53230A_set_trigger_levels(s4, channel, COUNTER_THRESHOLD,
                                          COUNTER_THRESHOLD)
    IN CT53230A_set_slopes(s5, channel, "NEG", "POS")

_set_currents(s, irefp, prog_in) ==
    set_terminal_current(set_terminal_current(s, "IREFP", irefp, None),
                         "PROG_IN", prog_in, None)

\* the channels of a terminal table that are on one instrument
UsedChannels(terminals, inst) ==
    {terminals[t].channel :
        t \in {u \in DOMAIN terminals : terminals[u].instrument = inst}}

\* for ch in <channels>: if ch not in <used>: set_voltage(ch, 0.0, 0.001)
RECURSIVE tie_unused_5270(_, _, _)
tie_unused_5270(s, channels, used) ==
    IF channels = <<>> THEN s
    ELSE tie_unused_5270(
             IF Head(channels) \in used THEN s
             ELSE IV5270B_set_voltage(s, Head(channels), 0,
                                      VOLTAGE_SOURCE_COMPLIANCE),
             Tail(channels), used)

\* list(range(1, 9))
all_5270b_channels == <<1, 2, 3, 4, 5, 6, 7, 8>>

\* initialize_all leaving the unused channels as they are
initialize_all_untied(s, queues) ==
    LET s0 == _get_instrument(s, "IV5270B")
        s1 == IV5270B_enable_channels(s0, all_5270b_channels)
        s3 == _configure_ppg(s1)
        s4 == _configure_voltage_sources(s3)
        s5 == _configure_counter(s4)
        s6 == _set_currents(s5, 0, 0)
    IN check_and_report_filtered(s6, queues)

\* initialize_all with the unused channels tied before the channels are
\* enabled
initialize_all_tie_first(s, queues) ==
    LET s0 == _get_instrument(s, "IV5270B")
        used_channels == UsedChannels(PROGRAMMER_TERMINALS, "IV5270B")
        s1 == tie_unused_5270(s0, all_5270b_channels, used_channels)
        s2 == IV5270B_enable_channels(s1, all_5270b_channels)
        s3 == _configure_ppg(s2)
        s4 == _configure_voltage_sources(s3)
        s5 == _configure_counter(s4)
        s6 == _set_currents(s5, 0, 0)
    IN check_and_report_filtered(s6, queues)

initialize_all(s, queues) ==
    LET s0 == _get_instrument(s, "IV5270B")
        used_channels == UsedChannels(PROGRAMMER_TERMINALS, "IV5270B")
        s1 == IV5270B_enable_channels(s0, all_5270b_channels)
        s2 == tie_unused_5270(s1, all_5270b_channels, used_channels)
        s3 == _configure_ppg(s2)
        s4 == _configure_voltage_sources(s3)
        s5 == _configure_counter(s4)
        s6 == _set_currents(s5, 0, 0)
    IN check_and_report_filtered(s6, queues)

----------------------------------------------------------------------------
(* run_programmer.py: measurements                                         *)

\* the commands of a spot measurement on one 5270B terminal; read_data
\* sends nothing, and what it returns is the caller's
spot_5270(s, terminal) ==
    LET s0 == _get_instrument(s, "IV5270B")
    IN IF ~get_terminal_config(terminal) THEN Raise(s0, "ValueError")
       ELSE IV5270B_execute_measurement(
                IV5270B_set_measurement_mode(
                    s0, 1, <<config.terminals[terminal].channel>>))

measure_icellmeas_current(s) == spot_5270(s, "ICELLMEAS")

measure_irefp_voltage(s) == spot_5270(s, "IREFP")

\* what a measurement method returns: the parsed reading, or 0.0 when the
\* response could not be parsed (always so for "TEST_MODE_RESPONSE")
Measured(parsed) == IF parsed THEN "reading" ELSE "0.0"

\* the ways the next n responses can parse: every way in hardware mode
\* within the bound on unparsable ones, none parsable in TEST_MODE
Parses(n) ==
    IF test_mode THEN {[i \in 1..n |-> FALSE]}
    ELSE {p \in [1..n -> BOOLEAN] :
             glitches + Cardinality({i \in 1..n : ~p[i]}) <= MaxGlitch}

Unparsed(p) ==
    IF test_mode THEN 0 ELSE Cardinality({i \in DOMAIN p : ~p[i]})

----------------------------------------------------------------------------
(* run_compute.py and run_voltage_measurement.py: bring-up                 *)

\* errors = self.check_all_instrument_errors();
\* self.report_and_exit_on_errors(errors)
report(checked, queues) ==
    report_and_exit_on_errors(checked, Reported(checked, queues))

check_and_report(s, queues) ==
    report(check_all_instrument_errors(s, queues), queues)

\* ComputeExperiment.run: if measurement_num == 1: the error check after the
\* first measurement
ComputeExperiment_check_after_first(s, num, queues) ==
    IF num = 1 THEN check_and_report(s, queues) ELSE s

\* [1, 2, 3, 4, 21, 22]
all_4156b_channels == <<1, 2, 3, 4, 21, 22>>

\* for ch in unused_4156b_channels: if ch <= 4: set_voltage(ch, 0.0, 0.001)
RECURSIVE tie_unused_4156(_, _, _)
tie_unused_4156(s, channels, used) ==
    IF channels = <<>> THEN s
    ELSE tie_unused_4156(
             IF Head(channels) \in used \/ Head(channels) > 4 THEN s
             ELSE IV4156B_set_voltage(s, Head(channels), 0,
                                      VOLTAGE_SOURCE_COMPLIANCE),
             Tail(channels), used)

\* ComputeExperiment.initialize_all_channels on a runner whose
\* _channels_initialized is still False (run() calls it once)
ComputeExperiment_initialize_all_channels(s, queues) ==
    LET s0 == _get_instrument(_get_instrument(s, "IV5270B"), "IV4156B")
        s1 == IV5270B_enable_channels(s0, all_5270b_channels)
        s2 == tie_unused_5270(s1, all_5270b_channels,
                              UsedChannels(COMPUTE_TERMINALS, "IV5270B"))
        s3 == IV4156B_enable_channels(s2, all_4156b_channels)
        s4 == tie_unused_4156(s3, all_4156b_channels,
                              UsedChannels(COMPUTE_TERMINALS, "IV4156B"))
        s5 == IV5270B_set_wait_time(s4, 2, 1, 10)
    IN check_and_report(s5, queues)

\* VoltageMeasurementExperiment.initialize_all_channels: the two literal
\* channel lists
VoltageMeasurementExperiment_initialize_all_channels(s, queues) ==
    LET s0 == _get_instrument(_get_instrument(s, "IV5270B"), "IV4156B")
        s1 == IV5270B_enable_channels(s0, <<0, 5, 6, 7, 8>>)
        s2 == IV4156B_enable_channels(s1, <<1, 2, 3, 4, 21, 22>>)
    IN check_and_report(s2, queues)

\* self.initialize_all_channels: the method of the constructed class
initialize_all_channels(s, queues) ==
    IF runner = "Compute"
    THEN ComputeExperiment_initialize_all_channels(s, queues)
    ELSE VoltageMeasurementExperiment_initialize_all_channels(s, queues)

\* setup_voltage_supplies, the same in both classes
setup_voltage_supplies(s) ==
    set_terminal_voltage(
        set_terminal_voltage(enable_gndu(s, "VSS"), "VDD", VDD, None),
        "VCC", VCC, None)

setup_sync_sweep_outputs(s) ==
    set_terminal_voltage(set_terminal_voltage(s, "OUT1", VDD, None),
                         "OUT2", VDD, None)

\* for terminal in <terminals>: self.get_terminal_config(terminal);
\* self.set_terminal_current(terminal, <value>)
RECURSIVE set_each_current(_, _, _)
set_each_current(s, terminals, value) ==
    IF terminals = <<>> THEN s
    ELSE set_each_current(set_terminal_current(s, Head(terminals), value, None),
                          Tail(terminals), value)

\* VoltageMeasurementExperiment.current_value, 20 nA
current_value == 20

setup_all_current_sources(s) ==
    set_each_current(s, COMPUTE_FIXED_CURRENT_TERMINALS, current_value)

----------------------------------------------------------------------------
(* run_compute.py: the measurement loop.  SETTINGS.EXPERIMENTS is taken    *)
(* with one experiment enabled, of the shape of "1q_div": X2, KGAIN, F11,  *)
(* F12, IREFP, IMEAS and ERASE_PROG fixed, sweep variables TRIM, IMEAS and *)
(* X1 with one TRIM value, one IMEAS value and the X1 values x1_values.    *)
(* Normalized values are kept in halves, NORMALIZED_UNIT being 1.0: -1.0,  *)
(* -0.5, 0, 0.5 and 1.0 are -2, -1, 0, 1 and 2.                            *)

\* the normalized X1 values an experiment lists: the two ends of the range
X1Normalized == {-2, 2}

Pair(name, value) == [name |-> name, value |-> value]

\* dict.get(name, default) on a dictionary kept as its items in order
Get(items, name, default) ==
    IF \E i \in DOMAIN items : items[i].name = name
    THEN items[CHOOSE i \in DOMAIN items : items[i].name = name].value
    ELSE default

\* one element of generate_experiment_combinations(experiment): the
\* fixed_values in their order, IMEAS overwritten in place, TRIM and X1
\* appended (ERASE_PROG, which is the list of PPG states, is kept apart)
combination(x1) ==
    <<Pair("X2", 0), Pair("KGAIN", 2), Pair("F11", 0), Pair("F12", 0),
      Pair("IREFP", 100), Pair("IMEAS", 0), Pair("TRIM", 2), Pair("X1", x1)>>

\* 1.0 as a normalized value
NORMALIZED_UNIT == 2

NORMALIZED_HALF_VARS == {"X1", "X2", "F11", "F12", "IMEAS"}
NORMALIZED_FULL_VARS == {"KGAIN", "TRIM"}

\* the conversion of the magnitude of the normalized value
convert_normalized_to_current_magnitude(param_name, normalized_value, irefp) ==
    LET magnitude == IF normalized_value < 0 THEN -normalized_value
                     ELSE normalized_value
    IN IF param_name \in NORMALIZED_HALF_VARS
       THEN (irefp * (magnitude + NORMALIZED_UNIT)) \div (2 * NORMALIZED_UNIT)
       ELSE IF param_name \in NORMALIZED_FULL_VARS
       THEN (irefp * magnitude) \div NORMALIZED_UNIT
       ELSE normalized_value

\* the conversion with the half-range formula applied to every variable
convert_normalized_to_current_half_only(param_name, normalized_value, irefp) ==
    IF param_name \in NORMALIZED_HALF_VARS \cup NORMALIZED_FULL_VARS
    THEN (irefp * (normalized_value + NORMALIZED_UNIT))
             \div (2 * NORMALIZED_UNIT)
    ELSE normalized_value

\* (irefp / 2.0) * (normalized_value + 1.0), irefp * normalized_value, or
\* normalized_value; the divisions by the unit of normalized values are exact
\* for every irefp that is a multiple of 2 * NORMALIZED_UNIT
convert_normalized_to_current(param_name, normalized_value, irefp) ==
    IF param_name \in NORMALIZED_HALF_VARS
    THEN (irefp * (normalized_value + NORMALIZED_UNIT))
             \div (2 * NORMALIZED_UNIT)
    ELSE IF param_name \in NORMALIZED_FULL_VARS
    THEN (irefp * normalized_value) \div NORMALIZED_UNIT
    ELSE normalized_value

convert_combo_to_currents(combo) ==
    [i \in DOMAIN combo |->
        Pair(combo[i].name,
             convert_normalized_to_current(combo[i].name, combo[i].value,
                                           Get(combo, "IREFP", 100)))]

\* current_combo of the combination at index i of the experiment
current_combo(i) == convert_combo_to_currents(combination(x1_values[i]))

\* key in dictionary, on a dictionary kept as its items in order
Has(items, name) == \E i \in DOMAIN items : items[i].name = name

\* d[name] = value: an existing key keeps its place, a new key goes last
Put(items, name, value) ==
    IF Has(items, name)
    THEN [i \in DOMAIN items |->
             IF items[i].name = name THEN Pair(name, value) ELSE items[i]]
    ELSE Append(items, Pair(name, value))

RECURSIVE Concat(_)
Concat(lists) ==
    IF lists = <<>> THEN <<>> ELSE Head(lists) \o Concat(Tail(lists))

\* the product with the first pool varying fastest
RECURSIVE product_from_first_fastest(_, _)
product_from_first_fastest(result, pools) ==
    IF pools = <<>> THEN result
    ELSE product_from_first_fastest(
             Concat([j \in DOMAIN Head(pools) |->
                        [i \in DOMAIN result |->
                            Append(result[i], Head(pools)[j])]]),
             Tail(pools))

\* itertools.product(*pools): result = [[]], then for each pool in turn
\* result = [x + [y] for x in result for y in pool]
RECURSIVE product_from(_, _)
product_from(result, pools) ==
    IF pools = <<>> THEN result
    ELSE product_from(
             Concat([i \in DOMAIN result |->
                        [j \in DOMAIN Head(pools) |->
                            Append(result[i], Head(pools)[j])]]),
             Tail(pools))

product(pools) == product_from(<<<<>>>>, pools)

\* the sweep variables that have a "<name>_values" key, in declared order
\* (the others are logged with a warning and left out)
param_names(e) ==
    SelectSeq(e.sweep_variables, LAMBDA var_name : Has(e.values, var_name))

param_values(e) ==
    [i \in DOMAIN param_names(e) |-> Get(e.values, param_names(e)[i], <<>>)]

\* combo_dict = fixed_values.copy(), then combo_dict[var_name] = value for
\* the zipped names and values
RECURSIVE combo_dict(_, _, _)
combo_dict(d, names, combo) ==
    IF names = <<>> THEN d
    ELSE combo_dict(Put(d, Head(names), Head(combo)), Tail(names),
                    Tail(combo))

generate_experiment_combinations(e) ==
    IF e.sweep_variables = <<>> THEN <<e.fixed_values>>
    ELSE IF param_values(e) = <<>> THEN <<e.fixed_values>>
    ELSE [k \in DOMAIN product(param_values(e)) |->
             combo_dict(e.fixed_values, param_names(e),
                        product(param_values(e))[k])]

\* the items of current_combo whose value differs from prev_current_combo's
changed_sources(prev, cur) ==
    SelectSeq(cur, LAMBDA item : Get(prev, item.name, -1) # item.value)

\* COMPUTE_LINKED_PARAMETERS of configs/compute.py, which is not in the
\* repository: KGAIN and TRIM each drive two terminals (the CSV columns
\* KGAIN1, KGAIN2, TRIM1, TRIM2 of _write_measurement_row)
COMPUTE_LINKED_PARAMETERS ==
    [KGAIN |-> <<"KGAIN1", "KGAIN2">>, TRIM |-> <<"TRIM1", "TRIM2">>]

\* setup_fixed_currents writing only the first terminal of a linked
\* parameter
RECURSIVE setup_fixed_currents_unlinked(_, _)
setup_fixed_currents_unlinked(s, current_values) ==
    IF current_values = <<>> THEN s
    ELSE setup_fixed_currents_unlinked(
             set_each_current(
                 s,
                 IF Head(current_values).name \in DOMAIN COMPUTE_LINKED_PARAMETERS
                 THEN <<COMPUTE_LINKED_PARAMETERS[Head(current_values).name][1]>>
                 ELSE <<Head(current_values).name>>,
                 Head(current_values).value),
             Tail(current_values))

\* for param_name, value in current_values.items(): the linked terminals,
\* or the terminal named as the parameter
RECURSIVE setup_fixed_currents(_, _)
setup_fixed_currents(s, current_values) ==
    IF current_values = <<>> THEN s
    ELSE setup_fixed_currents(
             set_each_current(
                 s,
                 IF Head(current_values).name \in DOMAIN COMPUTE_LINKED_PARAMETERS
                 THEN COMPUTE_LINKED_PARAMETERS[Head(current_values).name]
                 ELSE <<Head(current_values).name>>,
                 Head(current_values).value),
             Tail(current_values))

\* COMPUTE_PPG_STATES of configs/compute.py, as get_ppg_state_voltage
\* documents it: VCC for ERASE, 0 V for PROGRAM
get_ppg_state_voltage(state_name) == IF state_name = "ERASE" THEN VCC ELSE 0

\* self._current_ppg_state = state_name, reached when nothing was raised
track_ppg_state(s, state_name) ==
    IF s.exc # "" THEN s ELSE [s EXCEPT !.ppg = state_name]

\* set_ppg_state setting the output up again on every change of state
set_ppg_state_on_setup_again(ppg, cfg, state_name) ==
    IF ppg.exc # "" THEN ppg
    ELSE IF ppg.ppg # state_name
    THEN track_ppg_state(
             set_ppg_dc_mode(ppg, "ERASE_PROG",
                             get_ppg_state_voltage(state_name)),
             state_name)
    ELSE ppg

\* set_ppg_state once ppg = self._get_instrument(cfg.instrument) is at hand
set_ppg_state_on(ppg, cfg, state_name) ==
    IF ppg.exc # "" THEN ppg
    ELSE IF ppg.ppg = ""
    THEN track_ppg_state(
             set_ppg_dc_mode(ppg, "ERASE_PROG",
                             get_ppg_state_voltage(state_name)),
             state_name)
    ELSE IF ppg.ppg # state_name
    THEN track_ppg_state(
             PG81104A_set_polarity(ppg, cfg.channel,
                                   IF state_name = "ERASE" THEN "INV"
                                   ELSE "NORM"),
             state_name)
    ELSE ppg

ComputeExperiment_set_ppg_state(s, state_name) ==
    IF s.exc # "" THEN s
    ELSE IF ~get_terminal_config("ERASE_PROG") THEN Raise(s, "ValueError")
    ELSE set_ppg_state_on(
             _get_instrument(s, config.terminals["ERASE_PROG"].instrument),
             config.terminals["ERASE_PROG"], state_name)

\* execute_spot_measurement once the four terminal configurations are at
\* hand: X1 and IMEAS forced through the driver with the literal
\* compliances 0.1 and 2.0, then MM 1 on OUT1 and OUT2 and XE
execute_spot_measurement_on(inst, terminals, x1_value, imeas_value) ==
    IV5270B_execute_measurement(
        IV5270B_set_measurement_mode(
            IV5270B_set_current(
                IV5270B_set_current(inst, terminals["X1"].channel, x1_value,
                                    IF x1_value > 0 THEN 100 ELSE 2000),
                terminals["IMEAS"].channel, imeas_value,
                IF imeas_value > 0 THEN 100 ELSE 2000),
            1, <<terminals["OUT1"].channel, terminals["OUT2"].channel>>))

execute_spot_measurement(s, x1_value, imeas_value) ==
    IF s.exc # "" THEN s
    ELSE IF \E t \in {"X1", "IMEAS", "OUT1", "OUT2"} : ~get_terminal_config(t)
    THEN Raise(_get_instrument(s, "IV5270B"), "ValueError")
    ELSE execute_spot_measurement_on(_get_instrument(s, "IV5270B"),
                                     config.terminals, x1_value, imeas_value)

ComputeHeader ==
    [kind |-> "header",
     cols |-> <<"Experiment_Name", "PPG_state", "VDD", "VCC", "ERASE_PROG",
                "OUT1", "OUT2", "KGAIN1", "KGAIN2", "TRIM1", "TRIM2", "X2",
                "IREFP", "F11", "F12", "X1", "IMEAS", "OUT1_current",
                "OUT2_current">>]

\* ComputeExperiment._initialize_csv_output: the header goes to both files
ComputeExperiment_initialize_csv_output(c) ==
    IF c.initialized THEN c
    ELSE [initialized |-> TRUE, open |-> TRUE, file |-> <<ComputeHeader>>,
          latest |-> <<ComputeHeader>>]

\* the row with the X2 value written in the X1 column as well
ComputeRow_x2_twice(ppg_state, ppg_voltage, fixed_currents, x1_value, imeas_value, out1_current, out2_current) ==
    [kind |-> "row",
     cols |-> [Experiment_Name |-> "1q_div", PPG_state |-> ppg_state,
               VDD |-> VDD, VCC |-> VCC, ERASE_PROG |-> ppg_voltage,
               OUT1 |-> VDD, OUT2 |-> VDD,
               KGAIN1 |-> Get(fixed_currents, "KGAIN", 0),
               KGAIN2 |-> Get(fixed_currents, "KGAIN", 0),
               TRIM1 |-> Get(fixed_currents, "TRIM", 0),
               TRIM2 |-> Get(fixed_currents, "TRIM", 0),
               X2 |-> Get(fixed_currents, "X2", 0),
               IREFP |-> Get(fixed_currents, "IREFP", 0),
               F11 |-> Get(fixed_currents, "F11", 0),
               F12 |-> Get(fixed_currents, "F12", 0),
               X1 |-> Get(fixed_currents, "X2", 0), IMEAS |-> imeas_value,
               OUT1_current |-> out1_current,
               OUT2_current |-> out2_current]]

\* the row of ComputeExperiment._write_measurement_row
ComputeRow(ppg_state, ppg_voltage, fixed_currents, x1_value, imeas_value, out1_current, out2_current) ==
    [kind |-> "row",
     cols |-> [Experiment_Name |-> "1q_div", PPG_state |-> ppg_state,
               VDD |-> VDD, VCC |-> VCC, ERASE_PROG |-> ppg_voltage,
               OUT1 |-> VDD, OUT2 |-> VDD,
               KGAIN1 |-> Get(fixed_currents, "KGAIN", 0),
               KGAIN2 |-> Get(fixed_currents, "KGAIN", 0),
               TRIM1 |-> Get(fixed_currents, "TRIM", 0),
               TRIM2 |-> Get(fixed_currents, "TRIM", 0),
               X2 |-> Get(fixed_currents, "X2", 0),
               IREFP |-> Get(fixed_currents, "IREFP", 0),
               F11 |-> Get(fixed_currents, "F11", 0),
               F12 |-> Get(fixed_currents, "F12", 0),
               X1 |-> x1_value, IMEAS |-> imeas_value,
               OUT1_current |-> out1_current,
               OUT2_current |-> out2_current]]

ComputeExperiment_write_measurement_row(c, row) ==
    [ComputeExperiment_initialize_csv_output(c)
        EXCEPT !.file = Append(@, row), !.latest = Append(@, row)]

----------------------------------------------------------------------------
(* run_voltage_measurement.py: the measurement loop                        *)

\* VoltageMeasurementExperiment.set_ppg_state: the full DC set-up each time
VoltageMeasurementExperiment_set_ppg_state(s, state_name) ==
    set_ppg_dc_mode(s, "ERASE_PROG", get_ppg_state_voltage(state_name))

\* the spot measurement of measure_terminal_voltage on the terminal's
\* instrument: MM 1,<ch> and XE, and on the 4156B the RMD? of
\* read_measurement_data
spot_voltage(inst, cfg) ==
    IF cfg.instrument = "IV5270B"
    THEN IV5270B_execute_measurement(
             IV5270B_set_measurement_mode(inst, 1, <<cfg.channel>>))
    ELSE IF cfg.instrument = "IV4156B"
    THEN IV4156B_read_measurement_data(
             IV4156B_execute_measurement(
                 IV4156B_set_measurement_mode(inst, 1, <<cfg.channel>>)))
    ELSE inst

measure_terminal_voltage_on(s, cfg) ==
    IF cfg.measurement_type # "I" THEN Raise(s, "ValueError")
    ELSE spot_voltage(_get_instrument(s, cfg.instrument), cfg)

measure_terminal_voltage(s, terminal) ==
    IF s.exc # "" THEN s
    ELSE IF ~get_terminal_config(terminal) THEN Raise(s, "ValueError")
    ELSE measure_terminal_voltage_on(s, config.terminals[terminal])

RECURSIVE measure_each(_, _)
measure_each(s, terminals) ==
    IF terminals = <<>> THEN s
    ELSE measure_each(measure_terminal_voltage(s, Head(terminals)),
                      Tail(terminals))

measure_all_current_source_voltages(s) ==
    measure_each(s, COMPUTE_FIXED_CURRENT_TERMINALS)

\* sorted(voltages.keys()), as positions in COMPUTE_FIXED_CURRENT_TERMINALS
\* (F11, F12, IREFP, KGAIN1, KGAIN2, TRIM1, TRIM2, X2)
SortedTerminals == <<7, 8, 6, 1, 2, 3, 4, 5>>

\* write_voltage_csv: a new file for the state, its header and one row for
\* each terminal in sorted order
write_voltage_csv(parsed) ==
    [initialized |-> FALSE, open |-> FALSE, latest |-> <<>>,
     file |-> <<[kind |-> "header", cols |-> <<"Current_Source", "Voltage_V">>]>>
              \o [i \in 1..Len(SortedTerminals) |->
                     [kind |-> "row",
                      cols |-> [Current_Source |->
                                    COMPUTE_FIXED_CURRENT_TERMINALS[
                                        SortedTerminals[i]],
                                Voltage_V |->
                                    Measured(parsed[SortedTerminals[i]])]]]]

----------------------------------------------------------------------------
(* State after construction, and the writing back of an object state.      *)

Commit(s) ==
    /\ log' = s.log
    /\ terminal_states' = s.ts
    /\ instruments' = s.insts
    /\ exc' = s.exc
    /\ current_ppg_state' = s.ppg
    /\ failed' = s.failed
    /\ closed' = s.closed
    /\ faults_left' = faults_left - (Len(s.failed) - Len(failed))

\* no CSV file has been opened: _csv_initialized, whether the files are open,
\* and the lines of the timestamped file and of the "latest" file
NoCsv == [initialized |-> FALSE, open |-> FALSE, file |-> <<>>, latest |-> <<>>]

\* no experiment dictionary has been given to the generator
Unswept ==
    /\ experiment = [sweep_variables |-> <<>>, fixed_values |-> <<>>,
                     values |-> <<>>]
    /\ combinations = None
    /\ visited = <<>>

\* no function has been applied on its own
NoApplication ==
    [fn |-> "none", name |-> "", x |-> 0, irefp |-> 0,
     data |-> [wellformed |-> TRUE, value |-> 0], max_tries |-> 0,
     replies |-> <<>>, result |-> None]

NoCall ==
    [op |-> "none", terminal |-> "", value |-> 0, compliance |-> None,
     raised |-> "", sent |-> <<>>]

\* ExperimentRunner.__init__ (and the subclass constructors)
Constructed ==
    /\ log = <<>>
    /\ terminal_states = [t \in DOMAIN config.terminals |-> None]
    /\ instruments = <<>>
    /\ exc = ""
    /\ current_ppg_state = ""
    /\ csv = NoCsv
    /\ measurement_num = 0
    /\ mode_i = 1
    /\ irefp_i = 1
    /\ prog_in_i = 1
    /\ vrefp = "0.0"
    /\ glitches = 0
    /\ bringup_end = -1
    /\ loop_end = -1
    /\ calls = 0
    /\ last_call = NoCall
    /\ failed = <<>>
    /\ closed = <<>>

----------------------------------------------------------------------------
(* The runner's public methods called one at a time, in any order, by a    *)
(* client that catches what they raise.                                    *)

\* terminal names a client passes: current, voltage, VSU and ground-unit
\* terminals on either analyzer, and a name no table has
CallTerminals ==
    IF runner = "Programmer"
    THEN {"PROG_OUT", "VDD", "VSS", "WR_ENB", "COUNTER", "NOPE"}
    ELSE {"X1", "KGAIN1", "VDD", "OUT1", "VSS", "ERASE_PROG", "NOPE"}

CallCurrents == {-5, 0, 5}
CallVoltages == {0, 1800}
CallCompliances == {None, Some(1500)}

\* the commands a call appended to the log
Sent(s) == SubSeq(s.log, Len(log) + 1, Len(s.log))

\* the object after a call whose exception the client has caught
Caught(s) == [s EXCEPT !.exc = ""]

ClientCreated ==
    /\ runner \in Runners
    /\ pc = "api"
    /\ irefp_values = <<>>
    /\ prog_in_values = <<>>
    /\ x1_values = <<>>
    /\ Unswept
    /\ Constructed
    /\ applied = NoApplication

InitCalls == test_mode = TRUE /\ ClientCreated /\ faults_left = 0

Unscripted ==
    UNCHANGED <<runner, test_mode, pc, csv, measurement_num, mode_i, irefp_i,
                prog_in_i, vrefp, irefp_values, prog_in_values, x1_values,
                glitches, bringup_end, loop_end, experiment, combinations,
                visited, applied>>

CallSetTerminalCurrent ==
    \E f \in FaultChoices, t \in CallTerminals, v \in CallCurrents,
       c \in CallCompliances :
        LET s == set_terminal_current(Armed(f), t, v, c)
        IN /\ calls < MaxCalls
           /\ calls' = calls + 1
           /\ Commit(Caught(s))
           /\ last_call' = [op |-> "set_terminal_current", terminal |-> t,
                            value |-> v, compliance |-> c, raised |-> s.exc,
                            sent |-> Sent(s)]
           /\ Unscripted

CallSetTerminalVoltage ==
    \E f \in FaultChoices, t \in CallTerminals, v \in CallVoltages :
        LET s == set_terminal_voltage(Armed(f), t, v, None)
        IN /\ calls < MaxCalls
           /\ calls' = calls + 1
           /\ Commit(Caught(s))
           /\ last_call' = [op |-> "set_terminal_voltage", terminal |-> t,
                            value |-> v, compliance |-> None,
                            raised |-> s.exc, sent |-> Sent(s)]
           /\ Unscripted

CallHandshake(op, s) ==
    /\ runner = "Programmer"
    /\ calls < MaxCalls
    /\ calls' = calls + 1
    /\ Commit(Caught(s))
    /\ last_call' = [op |-> op, terminal |-> "", value |-> 0,
                     compliance |-> None, raised |-> s.exc, sent |-> Sent(s)]
    /\ Unscripted

CallInitiateTimeInterval ==
    \E f \in FaultChoices :
        CallHandshake("initiate_time_interval",
                      initiate_time_interval(Armed(f)))

CallTriggerWrEnb ==
    \E f \in FaultChoices :
        CallHandshake("trigger_wr_enb", trigger_wr_enb(Armed(f)))

CallFetchTimeInterval ==
    \E f \in FaultChoices :
        CallHandshake("fetch_time_interval", fetch_time_interval(Armed(f)))

\* a terminal operation that takes the terminal's name
CallTerminalOperation(op, terminal, s) ==
    /\ calls < MaxCalls
    /\ calls' = calls + 1
    /\ Commit(Caught(s))
    /\ last_call' = [op |-> op, terminal |-> terminal, value |-> 0,
                     compliance |-> None, raised |-> s.exc, sent |-> Sent(s)]
    /\ Unscripted

CallEnableGndu ==
    \E f \in FaultChoices, t \in CallTerminals :
        CallTerminalOperation("enable_gndu", t, enable_gndu(Armed(f), t))

CallSetPulse ==
    \E f \in FaultChoices, t \in CallTerminals :
        CallTerminalOperation("set_pulse", t,
                              set_pulse(Armed(f), t, VCC, 0, "100NS"))

CallSetPpgDcMode ==
    \E f \in FaultChoices, t \in CallTerminals :
        CallTerminalOperation("set_ppg_dc_mode", t,
                              set_ppg_dc_mode(Armed(f), t, VCC))

CallMeasureFrequency ==
    \E f \in FaultChoices, t \in CallTerminals :
        CallTerminalOperation("measure_frequency", t,
                              measure_frequency(Armed(f), t))

CallMeasureTerminalCurrent ==
    \E f \in FaultChoices, t \in CallTerminals :
        CallTerminalOperation("measure_terminal_current", t,
                              measure_terminal_current(Armed(f), t))

\* ComputeExperiment.set_ppg_state called with either state; the call is
\* recorded with the voltage of the state it asked for
CallSetPpgState ==
    \E f \in FaultChoices, state_name \in {"ERASE", "PROGRAM"} :
        /\ runner = "Compute"
        /\ \E s \in {ComputeExperiment_set_ppg_state(Armed(f), state_name)} :
               /\ calls < MaxCalls
               /\ calls' = calls + 1
               /\ Commit(Caught(s))
               /\ last_call' = [op |-> "set_ppg_state",
                                terminal |-> "ERASE_PROG",
                                value |-> get_ppg_state_voltage(state_name),
                                compliance |-> None, raised |-> s.exc,
                                sent |-> Sent(s)]
               /\ Unscripted

\* instrument types a client asks for: those with a configured address and
\* one with none
CallInstrumentTypes == DEFAULT_ADDRESSES \cup {"UNADDRESSED"}

\* self._get_instrument(inst_type), on hardware whose open_resource may
\* raise; the call is recorded with the type it asked for
CallGetInstrument ==
    \E o \in IF test_mode \/ faults_left = 0 THEN {0} ELSE {0, 1},
       inst_type \in CallInstrumentTypes :
        \E s \in {_get_instrument([Self EXCEPT !.open_fault = o], inst_type)} :
            /\ calls < MaxCalls
            /\ calls' = calls + 1
            /\ Commit(Caught(s))
            /\ last_call' = [op |-> "_get_instrument", terminal |-> inst_type,
                             value |-> 0, compliance |-> None,
                             raised |-> s.exc, sent |-> Sent(s)]
            /\ Unscripted

\* self.close_all()
CallCloseAll ==
    \E s \in {close_all(Self)} :
        /\ calls < MaxCalls
        /\ calls' = calls + 1
        /\ Commit(Caught(s))
        /\ last_call' = [op |-> "close_all", terminal |-> "", value |-> 0,
                         compliance |-> None, raised |-> s.exc,
                         sent |-> Sent(s)]
        /\ Unscripted

NextCalls ==
    \/ CallGetInstrument
    \/ CallCloseAll
    \/ CallSetPpgState
    \/ CallSetTerminalCurrent
    \/ CallSetTerminalVoltage
    \/ CallEnableGndu
    \/ CallSetPulse
    \/ CallSetPpgDcMode
    \/ CallMeasureFrequency
    \/ CallMeasureTerminalCurrent
    \/ CallInitiateTimeInterval
    \/ CallTriggerWrEnb
    \/ CallFetchTimeInterval

SpecCalls == InitCalls /\ [][NextCalls]_vars

----------------------------------------------------------------------------
(* run_programmer.py: CSV output                                           *)

ProgrammerHeader ==
    [kind |-> "header",
     cols |-> <<"MODE", "IREFP", "PROG_IN", "PROG_OUT", "VDD", "VCC",
                "V_ICELLMEAS", "ERASE_PROG", "VREFP", "ICELLMEAS_START",
                "ICELLMEAS_FINAL", "PULSE_WIDTH">>]

\* both files are opened with mode 'w'; the header goes to the timestamped
\* file's writer only
_initialize_csv_output(c) ==
    IF c.initialized THEN c
    ELSE [initialized |-> TRUE, open |-> TRUE, file |-> <<ProgrammerHeader>>,
          latest |-> <<>>]

_write_measurement_row(c, mode, irefp, prog_in, v, icellmeas_start, icellmeas_final, pulse_width) ==
    LET c1 == _initialize_csv_output(c)
        row == [kind |-> "row",
                cols |-> [MODE |-> mode, IREFP |-> irefp,
                          PROG_IN |-> prog_in,
                          PROG_OUT |-> PROG_OUT_CURRENT,
                          VDD |-> VDD, VCC |-> VCC,
                          V_ICELLMEAS |-> VDD \div 2,
                          ERASE_PROG |-> IF mode = "ERASE" THEN VCC ELSE 0,
                          VREFP |-> v,
                          ICELLMEAS_START |-> icellmeas_start,
                          ICELLMEAS_FINAL |-> icellmeas_final,
                          PULSE_WIDTH |-> pulse_width]]
    IN [c1 EXCEPT !.file = Append(@, row), !.latest = Append(@, row)]

_close_csv_output(c) == [c EXCEPT !.open = FALSE]

\* what run() hands to the CSV for a measured value: the dummy constants in
\* test mode, the measured value otherwise
CsvValue(measured) == IF test_mode THEN "dummy" ELSE measured

----------------------------------------------------------------------------
(* run_programmer.py: run()                                                *)

Modes == <<"ERASE", "PROGRAM">>

\* the handshake with the pulse fired before the counter is armed
handshake_trigger_first(s) ==
    fetch_time_interval(initiate_time_interval(trigger_wr_enb(s)))

\* initiate_time_interval(); trigger_wr_enb(); fetch_time_interval()
handshake(s) ==
    fetch_time_interval(trigger_wr_enb(initiate_time_interval(s)))

\* ICELLMEAS measured with ERASE_PROG left at the level of the mode
guarded_icellmeas_unlowered(s, mode) ==
    measure_icellmeas_current(s)

\* ICELLMEAS measured with ERASE_PROG lowered and not raised again
guarded_icellmeas_unrestored(s, mode) ==
    IF mode = "ERASE"
    THEN measure_icellmeas_current(
             set_terminal_voltage(s, "ERASE_PROG", 0, None))
    ELSE measure_icellmeas_current(s)

\* ICELLMEAS measured with ERASE_PROG lowered around it in ERASE mode
guarded_icellmeas(s, mode) ==
    IF mode = "ERASE"
    THEN set_terminal_voltage(
             measure_icellmeas_current(
                 set_terminal_voltage(s, "ERASE_PROG", 0, None)),
             "ERASE_PROG", VCC, None)
    ELSE measure_icellmeas_current(s)

\* the body of the PROG_IN loop with the counter configured again at
\* each point
point_reconfigured(s, mode, prog_in) ==
    LET s1 == set_terminal_current(_configure_counter(s), "PROG_IN",
                                   prog_in, None)
        s2 == guarded_icellmeas(s1, mode)
        s3 == handshake(s2)
    IN guarded_icellmeas(s3, mode)

\* the body of the PROG_IN loop up to the last measurement
point(s, mode, prog_in) ==
    LET s1 == set_terminal_current(s, "PROG_IN", prog_in, None)
        s2 == guarded_icellmeas(s1, mode)
        s3 == handshake(s2)
    IN guarded_icellmeas(s3, mode)

\* where the loops of run() stand after the body of one of them
AfterMode ==
    IF mode_i < Len(Modes)
    THEN [pc |-> "mode", m |-> mode_i + 1, i |-> 1, p |-> 1]
    ELSE [pc |-> "loop_done", m |-> mode_i, i |-> irefp_i, p |-> prog_in_i]

AfterIrefp ==
    IF irefp_i < Len(irefp_values)
    THEN [pc |-> "irefp", m |-> mode_i, i |-> irefp_i + 1, p |-> 1]
    ELSE AfterMode

AfterPoint ==
    IF prog_in_i < Len(prog_in_values)
    THEN [pc |-> "point", m |-> mode_i, i |-> irefp_i, p |-> prog_in_i + 1]
    ELSE AfterIrefp

\* the move to position n, or to the failure exit when an exception is
\* pending in s
Goto(s, n) ==
    /\ pc' = IF s.exc # "" THEN "failed" ELSE n.pc
    /\ mode_i' = n.m
    /\ irefp_i' = n.i
    /\ prog_in_i' = n.p
    /\ loop_end' = IF loop_end = -1 /\ bringup_end # -1
                      /\ (s.exc # "" \/ n.pc \in {"loop_done", "ran"})
                   THEN Len(s.log) ELSE loop_end

Here == [pc |-> pc, m |-> mode_i, i |-> irefp_i, p |-> prog_in_i]

Fixed ==
    UNCHANGED <<runner, test_mode, x1_values, calls, last_call, experiment,
                combinations, visited, applied>>

\* main(): the runner is constructed by the with statement and given the
\* lists of the settings file
Created ==
    /\ runner \in Runners
    /\ test_mode \in BOOLEAN
    /\ pc = "created"
    /\ IF runner = "Programmer"
       THEN /\ \E n \in 0..MaxIrefp :
                   irefp_values = [i \in 1..n |-> IREFP_STEP * i]
            /\ \E n \in 0..MaxProgIn :
                   prog_in_values = [i \in 1..n |-> PROG_IN_STEP * i]
       ELSE irefp_values = <<>> /\ prog_in_values = <<>>
    /\ IF runner = "Compute"
       THEN \E n \in 0..MaxX1 : x1_values \in [1..n -> X1Normalized]
       ELSE x1_values = <<>>
    /\ Unswept
    /\ Constructed
    /\ applied = NoApplication

\* a run on a bus every write of which succeeds
Init == Created /\ faults_left = 0

\* __enter__: startup(); when it raises, the with statement runs neither
\* its body nor __exit__
Startup ==
    \E f \in FaultChoices, o \in OpenChoices :
    /\ pc = "created"
    /\ \E s \in {startup([Armed(f) EXCEPT !.open_fault = o])} :
           /\ Commit(s)
           /\ pc' = IF s.exc # "" THEN "enter_failed" ELSE "entered"
    /\ UNCHANGED <<csv, measurement_num, mode_i, irefp_i, prog_in_i, vrefp,
                   irefp_values, prog_in_values, glitches, bringup_end,
                   loop_end>>
    /\ Fixed

\* run() up to initialize_all: the default IREFP list and the CSV files
ProgrammerRunStart ==
    /\ runner = "Programmer"
    /\ pc = "entered"
    /\ irefp_values' = IF irefp_values = <<>> THEN <<0>> ELSE irefp_values
    /\ csv' = _initialize_csv_output(csv)
    /\ pc' = "bringup"
    /\ UNCHANGED <<log, terminal_states, instruments, exc, current_ppg_state,
                   faults_left, failed, closed,
                   measurement_num,
                   mode_i, irefp_i, prog_in_i, vrefp, prog_in_values,
                   glitches, bringup_end, loop_end>>
    /\ Fixed

\* self.initialize_all()
ProgrammerInitializeAll ==
    \E f \in FaultChoices :
    /\ runner = "Programmer"
    /\ pc = "bringup"
    /\ \E queues \in ErrorQueues :
           \E s \in {initialize_all(Armed(f), queues)} :
              /\ Commit(s)
              /\ pc' = IF s.exc # "" THEN "failed" ELSE "mode"
              /\ bringup_end' = IF s.exc # "" THEN -1 ELSE Len(s.log)
    /\ UNCHANGED <<csv, measurement_num, mode_i, irefp_i, prog_in_i, vrefp,
                   irefp_values, prog_in_values, glitches, loop_end>>
    /\ Fixed

\* for mode in ["ERASE", "PROGRAM"]: ERASE_PROG is set for the mode
ProgrammerModeStart ==
    \E f \in FaultChoices :
    /\ pc = "mode"
    /\ \E s \in {set_terminal_voltage(Armed(f), "ERASE_PROG",
                    IF Modes[mode_i] = "ERASE" THEN VCC ELSE 0, None)} :
          /\ Commit(s)
          /\ Goto(s, [Here EXCEPT !.pc = "irefp"])
    /\ UNCHANGED <<csv, measurement_num, vrefp, irefp_values, prog_in_values,
                   glitches, bringup_end>>
    /\ Fixed

\* for irefp in self.irefp_values: IREFP is set and VREFP measured
ProgrammerIrefpStart ==
    \E f \in FaultChoices :
    /\ pc = "irefp"
    /\ \E parsed \in Parses(1) :
           \E s \in {measure_irefp_voltage(
                        set_terminal_current(Armed(f), "IREFP",
                                             irefp_values[irefp_i], None))} :
              /\ Commit(s)
              /\ vrefp' = Measured(parsed[1])
              /\ glitches' = glitches + Unparsed(parsed)
              /\ Goto(s, IF prog_in_values # <<>>
                         THEN [Here EXCEPT !.pc = "point"]
                         ELSE AfterIrefp)
    /\ UNCHANGED <<csv, measurement_num, irefp_values, prog_in_values,
                   bringup_end>>
    /\ Fixed

\* for prog_in in self.prog_in_values: one measurement point, its row, and
\* the error check after the first row
ProgrammerPoint ==
    \E f \in FaultChoices :
    /\ pc = "point"
    /\ \E parsed \in Parses(3),
          queues \in IF measurement_num = 0 THEN ErrorQueues
                     ELSE {[i \in DEFAULT_ADDRESSES |-> 0]} :
           \E mode \in {Modes[mode_i]} :
           \E s \in {point(Armed(f), mode, prog_in_values[prog_in_i])} :
           \E s1 \in {ProgrammerExperiment_check_after_first(
                          s, measurement_num + 1, queues)} :
              /\ measurement_num' = measurement_num + 1
              /\ csv' = IF s.exc # "" THEN csv
                        ELSE _write_measurement_row(
                                 csv, mode, irefp_values[irefp_i],
                                 prog_in_values[prog_in_i], CsvValue(vrefp),
                                 CsvValue(Measured(parsed[1])),
                                 CsvValue(Measured(parsed[3])),
                                 CsvValue(Measured(parsed[2])))
              /\ glitches' = glitches + Unparsed(parsed)
              /\ Commit(s1)
              /\ Goto(s1, AfterPoint)
    /\ UNCHANGED <<vrefp, irefp_values, prog_in_values, bringup_end>>
    /\ Fixed

\* ComputeExperiment.run up to initialize_all_channels: the CSV files
ComputeRunStart ==
    /\ runner = "Compute"
    /\ pc = "entered"
    /\ csv' = ComputeExperiment_initialize_csv_output(csv)
    /\ pc' = "channels"
    /\ UNCHANGED <<log, terminal_states, instruments, exc, current_ppg_state,
                   faults_left, failed, closed,
                   measurement_num, mode_i, irefp_i, prog_in_i, vrefp,
                   irefp_values, prog_in_values, glitches, bringup_end,
                   loop_end>>
    /\ Fixed

\* self.initialize_all_channels(), the first statement of
\* VoltageMeasurementExperiment.run and the second of ComputeExperiment.run
InitializeAllChannels ==
    \E f \in FaultChoices :
    /\ runner # "Programmer"
    /\ pc = IF runner = "Compute" THEN "channels" ELSE "entered"
    /\ \E queues \in ErrorQueues :
           \E s \in {initialize_all_channels(Armed(f), queues)} :
              /\ Commit(s)
              /\ pc' = IF s.exc # "" THEN "failed" ELSE "supplies"
    /\ UNCHANGED <<csv, measurement_num, mode_i, irefp_i, prog_in_i, vrefp,
                   irefp_values, prog_in_values, glitches, bringup_end,
                   loop_end>>
    /\ Fixed

\* self.setup_voltage_supplies()
SetupVoltageSupplies ==
    \E f \in FaultChoices :
    /\ pc = "supplies"
    /\ \E s \in {setup_voltage_supplies(Armed(f))} :
          /\ Commit(s)
          /\ pc' = IF s.exc # "" THEN "failed" ELSE "sources"
    /\ UNCHANGED <<csv, measurement_num, mode_i, irefp_i, prog_in_i, vrefp,
                   irefp_values, prog_in_values, glitches, bringup_end,
                   loop_end>>
    /\ Fixed

\* self.setup_sync_sweep_outputs(), the last step of Compute's bring-up
ComputeSetupSyncSweepOutputs ==
    \E f \in FaultChoices :
    /\ runner = "Compute"
    /\ pc = "sources"
    /\ \E s \in {setup_sync_sweep_outputs(Armed(f))} :
          /\ Commit(s)
          /\ pc' = IF s.exc # "" THEN "failed" ELSE "experiment"
          /\ bringup_end' = IF s.exc # "" THEN -1 ELSE Len(s.log)
    /\ UNCHANGED <<csv, measurement_num, mode_i, irefp_i, prog_in_i, vrefp,
                   irefp_values, prog_in_values, glitches, loop_end>>
    /\ Fixed

\* self.setup_all_current_sources(), the last step of
\* VoltageMeasurementExperiment's bring-up
VoltageMeasurementSetupAllCurrentSources ==
    \E f \in FaultChoices :
    /\ runner = "VoltageMeasurement"
    /\ pc = "sources"
    /\ \E s \in {setup_all_current_sources(Armed(f))} :
          /\ Commit(s)
          /\ pc' = IF s.exc # "" THEN "failed" ELSE "state"
          /\ bringup_end' = IF s.exc # "" THEN -1 ELSE Len(s.log)
    /\ UNCHANGED <<csv, measurement_num, mode_i, irefp_i, prog_in_i, vrefp,
                   irefp_values, prog_in_values, glitches, loop_end>>
    /\ Fixed

\* for experiment in enabled_experiments: X1 is a sweep variable, so an
\* empty X1_values raises ValueError before the combinations are walked
ComputeExperimentStart ==
    \E f \in FaultChoices :
    /\ pc = "experiment"
    /\ \E s \in {IF x1_values = <<>> THEN Raise(Armed(f), "ValueError")
                 ELSE Armed(f)} :
          /\ Commit(s)
          /\ Goto(s, [pc |-> "combo", m |-> 1, i |-> 1, p |-> 1])
    /\ UNCHANGED <<csv, measurement_num, vrefp, irefp_values, prog_in_values,
                   glitches, bringup_end>>
    /\ Fixed

\* for combo in combinations: every source at the first combination, the
\* changed ones afterwards (prog_in_i is the index of the combination)
ComputeCombination ==
    \E f \in FaultChoices :
    /\ pc = "combo"
    /\ \E s \in {setup_fixed_currents(
                     Armed(f),
                     IF prog_in_i = 1 THEN current_combo(1)
                     ELSE changed_sources(current_combo(prog_in_i - 1),
                                          current_combo(prog_in_i)))} :
          /\ Commit(s)
          /\ Goto(s, [Here EXCEPT !.pc = "cpoint", !.m = 1])
    /\ UNCHANGED <<csv, measurement_num, vrefp, irefp_values, prog_in_values,
                   glitches, bringup_end>>
    /\ Fixed

AfterComputePoint ==
    IF mode_i < Len(Modes)
    THEN [Here EXCEPT !.m = mode_i + 1]
    ELSE IF prog_in_i < Len(x1_values)
    THEN [Here EXCEPT !.pc = "combo", !.p = prog_in_i + 1]
    ELSE [Here EXCEPT !.pc = "loop_done"]

\* for ppg_state in combo_ppg_states: set_ppg_state, and for the one X1
\* value of the combination the spot measurement, its row, and the error
\* check after the first row
ComputePoint ==
    \E f \in FaultChoices :
    /\ pc = "cpoint"
    /\ \E parsed \in Parses(2),
          queues \in IF measurement_num = 0 THEN ErrorQueues
                     ELSE {[i \in DEFAULT_ADDRESSES |-> 0]} :
       \E ppg_state \in {Modes[mode_i]} :
       \E cur \in {current_combo(prog_in_i)} :
       \E s \in {execute_spot_measurement(
                     ComputeExperiment_set_ppg_state(Armed(f), ppg_state),
                     Get(cur, "X1", 0), Get(cur, "IMEAS", 0))} :
       \E s1 \in {ComputeExperiment_check_after_first(
                      s, measurement_num + 1, queues)} :
          /\ measurement_num' = measurement_num + 1
          /\ csv' = IF s.exc # "" THEN csv
                    ELSE ComputeExperiment_write_measurement_row(
                             csv,
                             ComputeRow(ppg_state,
                                        get_ppg_state_voltage(ppg_state),
                                        cur, Get(cur, "X1", 0),
                                        Get(cur, "IMEAS", 0),
                                        CsvValue(Measured(parsed[1])),
                                        CsvValue(Measured(parsed[2]))))
          /\ glitches' = glitches + Unparsed(parsed)
          /\ Commit(s1)
          /\ Goto(s1, AfterComputePoint)
    /\ UNCHANGED <<vrefp, irefp_values, prog_in_values, bringup_end>>
    /\ Fixed

\* for ppg_state in COMPUTE_PPG_STATE_ORDER: the PPG level, the eight spot
\* measurements, the CSV file of the state and the error check
VoltageMeasurementState ==
    \E f \in FaultChoices :
    /\ pc = "state"
    /\ \E parsed \in Parses(Len(COMPUTE_FIXED_CURRENT_TERMINALS)),
          queues \in ErrorQueues :
       \E s \in {measure_all_current_source_voltages(
                     VoltageMeasurementExperiment_set_ppg_state(
                         Armed(f), Modes[mode_i]))} :
       \E s1 \in {check_and_report(s, queues)} :
          /\ csv' = IF s.exc # "" THEN csv ELSE write_voltage_csv(parsed)
          /\ glitches' = glitches + Unparsed(parsed)
          /\ Commit(s1)
          /\ Goto(s1, IF mode_i < Len(Modes)
                      THEN [Here EXCEPT !.m = mode_i + 1]
                      ELSE [Here EXCEPT !.pc = "ran"])
    /\ UNCHANGED <<measurement_num, vrefp, irefp_values, prog_in_values,
                   bringup_end>>
    /\ Fixed

\* the end of run() in ProgrammerExperiment and ComputeExperiment:
\* self._close_csv_output()
CloseCsv ==
    /\ pc = "loop_done"
    /\ csv' = _close_csv_output(csv)
    /\ pc' = "ran"
    /\ UNCHANGED <<log, terminal_states, instruments, exc, current_ppg_state,
                   faults_left, failed, closed,
                   measurement_num,
                   mode_i, irefp_i, prog_in_i, vrefp, irefp_values,
                   prog_in_values, glitches, bringup_end, loop_end>>
    /\ Fixed

\* ProgrammerExperiment.shutdown
ProgrammerExperiment_shutdown(s) ==
    ExperimentRunner_shutdown(
        Logged(PG81104A_idle(_get_instrument(s, "PG81104A"))))

\* self.shutdown: the method of the constructed class
shutdown(s) ==
    IF runner = "Programmer" THEN ProgrammerExperiment_shutdown(s)
    ELSE ExperimentRunner_shutdown(s)

\* __exit__: shutdown() runs whether run() returned or raised, and what it
\* raised goes on to the caller
Shutdown ==
    \E f \in FaultChoices :
    /\ pc \in {"ran", "failed"}
    /\ Commit([shutdown([Armed(f) EXCEPT !.exc = ""]) EXCEPT !.exc = exc])
    /\ csv' = IF runner \in {"Programmer", "Compute"}
              THEN _close_csv_output(csv) ELSE csv
    /\ pc' = "exited"
    /\ UNCHANGED <<measurement_num, mode_i, irefp_i, prog_in_i, vrefp,
                   irefp_values, prog_in_values, glitches, bringup_end,
                   loop_end>>
    /\ Fixed

Next ==
    \/ Startup
    \/ ProgrammerRunStart
    \/ ProgrammerInitializeAll
    \/ ProgrammerModeStart
    \/ ProgrammerIrefpStart
    \/ ProgrammerPoint
    \/ ComputeRunStart
    \/ InitializeAllChannels
    \/ SetupVoltageSupplies
    \/ ComputeSetupSyncSweepOutputs
    \/ VoltageMeasurementSetupAllCurrentSources
    \/ ComputeExperimentStart
    \/ ComputeCombination
    \/ ComputePoint
    \/ VoltageMeasurementState
    \/ CloseCsv
    \/ Shutdown

Spec == Init /\ [][Next]_vars

----------------------------------------------------------------------------
(* The same runs and calls on a bus that fails: resource.write of          *)
(* InstrumentBase.write raises for a write the bus chooses (FaultChoices). *)

\* a run on hardware whose bus may fail MaxFaults writes
InitFaults == Created /\ ~test_mode /\ faults_left = MaxFaults

SpecFaults == InitFaults /\ [][Next]_vars

\* a client's calls on hardware whose bus may fail MaxFaults writes
InitCallFaults == test_mode = FALSE /\ ClientCreated /\ faults_left = MaxFaults

SpecCallFaults == InitCallFaults /\ [][NextCalls]_vars

----------------------------------------------------------------------------
(* generate_experiment_combinations applied to an experiment dictionary,   *)
(* and the for statement of run() that walks what it returned.             *)

SweepNames == {"A", "B"}

\* the lists of at most MaxSweep distinct values a "<name>_values" key holds
ValueLists(values) ==
    {l \in UNION {[1..n -> values] : n \in 0..MaxSweep} :
        \A i, j \in DOMAIN l : l[i] = l[j] => i = j}

SweepValues == [A |-> {1, 2}, B |-> {10, 20}]

\* the declarations of sweep variables: no name twice
SweepDeclarations ==
    {<<>>, <<"A">>, <<"B">>, <<"A", "B">>, <<"B", "A">>}

\* the experiment dictionaries: A is also a fixed value (as IMEAS is in
\* "1q_div"), and each "<name>_values" key is present or not
Experiments ==
    {[sweep_variables |-> sv, fixed_values |-> <<Pair("IREFP", 100),
                                                 Pair("A", 0)>>,
      values |-> SelectSeq(<<Pair("A", a), Pair("B", b)>>,
                           LAMBDA item : item.name \in keys)] :
        sv \in SweepDeclarations, keys \in SUBSET SweepNames,
        a \in ValueLists(SweepValues.A), b \in ValueLists(SweepValues.B)}

InitCombos ==
    /\ runner = "Compute"
    /\ test_mode = TRUE
    /\ pc = "generate"
    /\ faults_left = 0
    /\ irefp_values = <<>>
    /\ prog_in_values = <<>>
    /\ x1_values = <<>>
    /\ experiment \in Experiments
    /\ combinations = None
    /\ visited = <<>>
    /\ Constructed
    /\ applied = NoApplication

Ungenerated ==
    UNCHANGED <<runner, test_mode, log, terminal_states, instruments, exc,
                faults_left, failed, closed,
                csv, measurement_num, mode_i, irefp_i, prog_in_i, vrefp,
                irefp_values, prog_in_values, x1_values, current_ppg_state,
                glitches, bringup_end, loop_end, calls, last_call,
                experiment, applied>>

\* combinations = self.generate_experiment_combinations(experiment)
GenerateCombinations ==
    /\ pc = "generate"
    /\ combinations' = Some(generate_experiment_combinations(experiment))
    /\ pc' = "walk"
    /\ UNCHANGED visited
    /\ Ungenerated

\* for combo_idx, combo in enumerate(combinations): the next combination
NextCombination ==
    /\ pc = "walk"
    /\ Len(visited) < Len(combinations[1])
    /\ visited' = Append(visited, combinations[1][Len(visited) + 1])
    /\ UNCHANGED <<pc, combinations>>
    /\ Ungenerated

NextCombos ==
    \/ GenerateCombinations
    \/ NextCombination

SpecCombos == InitCombos /\ [][NextCombos]_vars

----------------------------------------------------------------------------
(* Properties of the bias calls (set_terminal_current), checked on         *)
(* SpecCalls: the last call made and what it sent.                         *)

\* the latest call was set_terminal_current on a terminal of the table whose
\* measurement type is I
CurrentCall ==
    /\ last_call.op = "set_terminal_current"
    /\ get_terminal_config(last_call.terminal)
    /\ config.terminals[last_call.terminal].measurement_type = "I"

\* C1: for any value and any current terminal t, set_terminal_current(t,
\* value) transmits one force-current command (DI) to t's instrument and
\* channel whose programmed current is -value, and afterwards
\* _terminal_states[t] is value, not -value.
C1_SignRoundTrip ==
    CurrentCall =>
        /\ last_call.raised = ""
        /\ Len(last_call.sent) = 1
        /\ last_call.sent[1].op = "DI"
        /\ last_call.sent[1].inst =
               config.terminals[last_call.terminal].instrument
        /\ last_call.sent[1].chs =
               <<config.terminals[last_call.terminal].channel>>
        /\ parse_number(last_call.sent[1].args[1]) = -last_call.value
        /\ terminal_states[last_call.terminal] = Some(last_call.value)

\* a non-zero current has been set on a current terminal and the command
\* carries its negation while the terminal state keeps the caller's sign
C1_Witness ==
    /\ CurrentCall
    /\ last_call.value = 5
    /\ parse_number(last_call.sent[1].args[1]) = -5
    /\ terminal_states[last_call.terminal] = Some(5)

\* the compliance the latest set_terminal_current transmitted
SentCompliance == parse_number(last_call.sent[1].args[2])

\* C3 as stated: with no explicit compliance every runner transmits 0.1 V
\* for value > 0 and 2.0 V for value <= 0, and an explicit compliance is
\* transmitted unchanged.
C3_PolicyEveryRunner ==
    CurrentCall =>
        SentCompliance =
            IF last_call.compliance # None THEN last_call.compliance[1]
            ELSE IF last_call.value > 0 THEN LOW_COMPLIANCE
            ELSE CURRENT_SOURCE_COMPLIANCE

\* C3 amended: the sign-dependent default is that of the overrides in
\* ProgrammerExperiment and ComputeExperiment; through the base method,
\* which VoltageMeasurementExperiment inherits, the default is 2.0 V for
\* every value; an explicit compliance is transmitted unchanged by all.
C3_PolicyOfOverrides ==
    CurrentCall =>
        SentCompliance =
            IF last_call.compliance # None THEN last_call.compliance[1]
            ELSE IF runner \in {"Programmer", "Compute"}
                    /\ last_call.value > 0
            THEN LOW_COMPLIANCE
            ELSE CURRENT_SOURCE_COMPLIANCE

\* a positive current set with no compliance through an override (0.1 V
\* sent)
C3_Witness ==
    /\ CurrentCall
    /\ runner = "Programmer"
    /\ last_call.value > 0
    /\ last_call.compliance = None
    /\ SentCompliance = LOW_COMPLIANCE

----------------------------------------------------------------------------
(* Properties of a run, checked on Spec.                                   *)

\* the positions of the command log that satisfy a test
Positions(Test(_)) == {k \in 1..Len(log) : Test(log[k])}

\* the greatest element of a set of positions, 0 for none
Last(S) == IF S = {} THEN 0 ELSE CHOOSE k \in S : \A m \in S : m <= k

Rows(file) == {r \in 1..Len(file) : file[r].kind = "row"}

IsProgOutForce(c) ==
    /\ c.inst = PROGRAMMER_TERMINALS["PROG_OUT"].instrument
    /\ c.op = "DI"
    /\ c.chs = <<PROGRAMMER_TERMINALS["PROG_OUT"].channel>>

\* C2: in a Programmer run the PROG_OUT value stored in _terminal_states,
\* the PROG_OUT column of every written row and the negation of the
\* current last programmed on PROG_OUT's channel are all equal.
C2_ProgOutOneSign ==
    (runner = "Programmer" /\ Rows(csv.file) # {}) =>
        /\ Positions(IsProgOutForce) # {}
        /\ terminal_states["PROG_OUT"] # None
        /\ terminal_states["PROG_OUT"][1] =
               -parse_number(log[Last(Positions(IsProgOutForce))].args[1])
        /\ \A r \in Rows(csv.file) :
               csv.file[r].cols.PROG_OUT = terminal_states["PROG_OUT"][1]

IsHandshake(c) ==
    \/ c.inst = "CT53230A" /\ c.op \in {"INIT", "FETC?"}
    \/ c.inst = "PG81104A" /\ c.op = "*TRG"

\* the handshake commands of a log, in the order sent
HandshakeTrace(l) == SelectSeq(l, IsHandshake)

HandshakeCycle == <<"INIT", "*TRG", "FETC?">>

\* C4: in a Programmer run the handshake trace is (arm, trigger, fetch)
\* repeated once per measurement point: no trigger while not armed, no
\* second arm before the pending fetch, idle between points.
C4_HandshakePerPoint ==
    runner = "Programmer" =>
        LET trace == HandshakeTrace(log)
        IN /\ Len(trace) = 3 * measurement_num
           /\ \A k \in 1..Len(trace) :
                  trace[k].op = HandshakeCycle[((k - 1) % 3) + 1]

\* two points have been measured, each with its own handshake
C4_Witness ==
    /\ runner = "Programmer"
    /\ measurement_num >= 2
    /\ Len(HandshakeTrace(log)) = 6

\* the log as it was before the latest call
PriorLog == SubSeq(log, 1, Len(log) - Len(last_call.sent))

IsArm(c) == c.inst = "CT53230A" /\ c.op = "INIT"

IsFetch(c) == c.inst = "CT53230A" /\ c.op = "FETC?"

\* an arm has been issued since the last fetch
ArmedIn(l) ==
    \E j \in 1..Len(l) :
        /\ IsArm(l[j])
        /\ \A m \in (j + 1)..Len(l) : ~IsFetch(l[m])

\* C5 (checked on SpecCalls): trigger_wr_enb called when no
\* initiate_time_interval has been issued since the last fetch raises
\* NotArmed and sends no command to the pulse generator.
C5_TriggerNeedsArm ==
    (last_call.op = "trigger_wr_enb" /\ ~ArmedIn(PriorLog)) =>
        /\ last_call.raised = "NotArmed"
        /\ \A k \in 1..Len(last_call.sent) :
               last_call.sent[k].inst # "PG81104A"

\* the terminal names of a table that sit on the same instrument and
\* channel as another name
Aliased(terminals) ==
    {t \in DOMAIN terminals :
        \E u \in DOMAIN terminals \ {t} :
            /\ terminals[u].instrument = terminals[t].instrument
            /\ terminals[u].channel = terminals[t].channel}

\* C6: in the terminal table of the experiment (PROGRAMMER_TERMINALS) no
\* two distinct terminal names map to the same (instrument, channel) pair.
C6_NoSharedChannel ==
    runner = "Programmer" => Aliased(config.terminals) = {}

IsForceOn(c, terminal) ==
    /\ c.inst = config.terminals[terminal].instrument
    /\ c.op \in {"DV", "DI"}
    /\ c.chs = <<config.terminals[terminal].channel>>

IsProgInForce(c) == IsForceOn(c, "PROG_IN")

IsEraseProgForce(c) == IsForceOn(c, "ERASE_PROG")

\* PROG_IN and ERASE_PROG have both been driven, each on its own channel
C6_Witness ==
    /\ runner = "Programmer"
    /\ Positions(IsProgInForce) # {}
    /\ Positions(IsEraseProgForce) # {}
    /\ Positions(IsProgInForce) \cap Positions(IsEraseProgForce) = {}

SMUs == {"IV5270B", "IV4156B"}

IsForce(c) == c.inst \in SMUs /\ c.op \in {"DV", "DI"}

IsEnable(c) == c.inst \in SMUs /\ c.op = "CN"

\* the commands that only a measurement point issues: measurement set-up,
\* execution and read-back on the SMUs, and the pulse/counter handshake
IsPointCommand(c) ==
    \/ c.inst \in SMUs /\ c.op \in {"MM", "XE", "RMD?"}
    \/ IsHandshake(c)

\* C7: within a run no force-voltage or force-current command is sent to
\* an SMU channel before an enable-channels command covering that channel
\* has been sent to its instrument, and no point-iteration command is
\* issued before bring-up has completed.
C7_EnableBeforeForce ==
    /\ \A k \in Positions(IsForce) :
           \E j \in 1..(k - 1) :
               /\ IsEnable(log[j])
               /\ log[j].inst = log[k].inst
               /\ log[k].chs[1] \in Range(log[j].chs)
    /\ \A k \in Positions(IsPointCommand) :
           bringup_end # -1 /\ k > bringup_end

\* bring-up has completed with channels forced and a measurement point has
\* issued its commands after it
C7_Witness ==
    /\ bringup_end # -1
    /\ \E k \in Positions(IsForce) : k <= bringup_end
    /\ Positions(IsPointCommand) # {}

Count(Test(_)) == Cardinality(Positions(Test))

\* the positions of the log that belong to point iteration: after bring-up
\* and before tear-down
PointPositions ==
    {k \in 1..Len(log) :
        /\ bringup_end # -1
        /\ k > bringup_end
        /\ (loop_end = -1 \/ k <= loop_end)}

\* enable-channels commands that list several channels
IsBatchEnable(c) == IsEnable(c) /\ Len(c.chs) > 1

Enabled(inst) ==
    UNION {Range(log[k].chs) :
              k \in {j \in Positions(IsEnable) : log[j].inst = inst}}

\* the channels enabled on an instrument that no terminal is mapped to
Unmapped(inst) == Enabled(inst) \ UsedChannels(config.terminals, inst)

CounterConfigOps ==
    {"CONF:TINT", "INP:RANG", "INP:COUP", "INP:IMP", "INP:LEV", "INP:SLOP"}

PulseConfigOps ==
    {":ARM:SOUR", ":DIG:PATT", ":TRIG:COUN", ":TRIG:SOUR", ":PULS:PER",
     ":OUTP:POL", ":VOLT:HIGH", ":VOLT:LOW", ":PULS:WIDT", ":PULS:TRAN"}

IsCounterConfig(c) == c.inst = "CT53230A" /\ c.op \in CounterConfigOps

IsPulseConfig(c) == c.inst = "PG81104A" /\ c.op \in PulseConfigOps

IsErrorQuery(c) == c.op \in {"ERR?", "SYST:ERR?", ":SYST:ERR?"}

\* one command satisfies the test, and it was sent during bring-up
OnceInBringUp(Test(_)) ==
    LET sent == Positions(Test)
    IN /\ Cardinality(sent) = 1
       /\ \A k \in sent : k <= bringup_end

\* the ties, the static supplies and, in a Programmer run, the counter and
\* pulse settings are each sent once, during bring-up
StaticSetUpOnce ==
    /\ \A inst \in SMUs : \A ch \in Unmapped(inst) :
           OnceInBringUp(LAMBDA c : /\ c.inst = inst
                                    /\ c.op = "DV"
                                    /\ c.chs = <<ch>>)
    /\ OnceInBringUp(LAMBDA c : IsForceOn(c, "VDD"))
    /\ OnceInBringUp(LAMBDA c : IsForceOn(c, "VCC"))
    /\ runner = "Programmer" =>
           /\ \A o \in CounterConfigOps :
                  OnceInBringUp(LAMBDA c : c.inst = "CT53230A" /\ c.op = o)
           /\ \A o \in PulseConfigOps :
                  OnceInBringUp(LAMBDA c : c.inst = "PG81104A" /\ c.op = o)

C9_OneEnablePerInstrument ==
    \A inst \in SMUs :
        /\ Count(LAMBDA c : IsEnable(c) /\ c.inst = inst) <= 1
        /\ (bringup_end # -1 /\ inst \in Range(config.instruments_used)) =>
               Count(LAMBDA c : IsEnable(c) /\ c.inst = inst) = 1

IsTie(c) ==
    /\ c.inst \in SMUs
    /\ c.op = "DV"
    /\ Len(c.args) = 2
    /\ parse_number(c.args[1]) = 0
    /\ parse_number(c.args[2]) = VOLTAGE_SOURCE_COMPLIANCE

\* the channels forced to 0 V with the 1 mA compliance right after the
\* batched enable of their instrument
Tied(inst) ==
    {log[k].chs[1] :
        k \in {n \in Positions(IsTie) :
                  \E j \in 1..(n - 1) :
                      /\ IsBatchEnable(log[j])
                      /\ log[j].inst = inst
                      /\ \A m \in (j + 1)..n :
                             IsTie(log[m]) /\ log[m].inst = inst}}

\* C10: after bring-up every channel enabled on an instrument and mapped
\* to no terminal has been forced to 0 V with the 1 mA compliance, and the
\* enabled channels are the disjoint union of the channels of terminals
\* and the tied channels.
C10_NoFloatingChannel ==
    bringup_end # -1 =>
        \A inst \in SMUs :
            LET tied == Tied(inst)
                enabled == Enabled(inst)
                used == UsedChannels(config.terminals, inst)
            IN /\ enabled \ used \subseteq tied
               /\ tied \subseteq enabled
               /\ tied \cap used = {}
               /\ enabled \subseteq used \cup tied

\* a Programmer bring-up has enabled channels 1 to 8 and tied channel 8,
\* the one no terminal uses
C10_Witness ==
    /\ runner = "Programmer"
    /\ bringup_end # -1
    /\ Enabled("IV5270B") = Range(all_5270b_channels)
    /\ Tied("IV5270B") = {8}

----------------------------------------------------------------------------
(* Properties of the measurement points of a run.                          *)

First(S) == IF S = {} THEN 0 ELSE CHOOSE k \in S : \A m \in S : k <= m

IsExecute(c) == c.inst \in SMUs /\ c.op = "XE"

\* the executions that take the measurements of the points: every one in a
\* Compute or VoltageMeasurement run, those on ICELLMEAS in a Programmer
\* run (VREFP is measured once per IREFP value, before its points)
PointExecutions ==
    {k \in Positions(IsExecute) :
        runner = "Programmer" =>
            /\ k > 1
            /\ log[k - 1].op = "MM"
            /\ log[k - 1].chs = <<config.terminals["ICELLMEAS"].channel>>}

\* the last force-current command to a terminal before position f
LastCurrentBefore(f, terminal) ==
    Last({k \in 1..(f - 1) :
             /\ log[k].inst = config.terminals[terminal].instrument
             /\ log[k].op = "DI"
             /\ log[k].chs = <<config.terminals[terminal].channel>>})

\* the name under which an experiment lists the value of a terminal
ParameterOf(terminal) ==
    IF terminal \in {"KGAIN1", "KGAIN2"} THEN "KGAIN"
    ELSE IF terminal \in {"TRIM1", "TRIM2"} THEN "TRIM"
    ELSE terminal

\* the current sources a run drives, each with its value at the first point
FirstPointSources ==
    IF runner = "Programmer"
    THEN {Pair("IREFP", irefp_values[1]), Pair("PROG_IN", prog_in_values[1]),
          Pair("PROG_OUT", terminal_states["PROG_OUT"][1])}
    ELSE IF runner = "Compute"
    THEN {Pair(t, Get(current_combo(1), ParameterOf(t), 0)) :
             t \in {u \in DOMAIN config.terminals :
                       config.terminals[u].measurement_type = "I"}}
    ELSE {Pair(t, current_value) : t \in Range(COMPUTE_FIXED_CURRENT_TERMINALS)}

\* C11: at the first measurement point of a run a force command carrying
\* the point's value has been sent for every current-source terminal of the
\* experiment before the first measurement is taken; in a Compute run all
\* of them are sent inside the first point, whatever was sent before.
C11_FirstPointWritesAll ==
    PointExecutions # {} =>
        \A src \in FirstPointSources :
            LET k == LastCurrentBefore(First(PointExecutions), src.name)
            IN /\ k # 0
               /\ parse_number(log[k].args[1]) = -src.value
               /\ runner = "Compute" => k > bringup_end

\* a Compute run has taken its first measurement with a non-zero X1
C11_Witness ==
    /\ runner = "Compute"
    /\ measurement_num >= 1
    /\ PointExecutions # {}
    /\ Get(current_combo(1), "X1", 0) # 0

\* the last force-current command to a channel before position f
LastCurrentOn(f, inst, chs) ==
    Last({k \in 1..(f - 1) :
             log[k].inst = inst /\ log[k].op = "DI" /\ log[k].chs = chs})

\* the current programmed on a channel when position f is reached
CurrentAt(f, inst, chs) ==
    parse_number(log[LastCurrentOn(f, inst, chs)].args[1])

\* C12: in a Compute run, for every measurement point after the first a
\* force command is sent only to current sources whose value differs from
\* the value they had at the previous point; an unchanged source receives
\* no force command.
C12_OnlyChangedForced ==
    runner = "Compute" =>
        \A e \in PointExecutions :
            LET p == Last({x \in PointExecutions : x < e})
            IN p # 0 =>
                   \A k \in (p + 1)..(e - 1) :
                       (log[k].inst \in SMUs /\ log[k].op = "DI") =>
                           CurrentAt(e, log[k].inst, log[k].chs) #
                               CurrentAt(p, log[k].inst, log[k].chs)

----------------------------------------------------------------------------
(* Properties of consecutive calls, checked on SpecCalls.                  *)

\* the latest call was set_terminal_voltage on a voltage or VSU terminal of
\* the table
VoltageCall(call) ==
    /\ call.op = "set_terminal_voltage"
    /\ get_terminal_config(call.terminal)
    /\ config.terminals[call.terminal].measurement_type \in {"V", "VSU"}

\* C13: when set_terminal_voltage(t, v) is called twice in a row with the
\* same v, the first call issues the force-voltage write once and the
\* second call issues none, so the write for v is issued once in total.
C13_SecondWriteIsNoOp ==
    [][(/\ calls' = calls + 1
        /\ VoltageCall(last_call')
        /\ VoltageCall(last_call)
        /\ last_call'.terminal = last_call.terminal
        /\ last_call'.value = last_call.value)
       => (Len(last_call.sent) = 1 /\ last_call'.sent = <<>>)]_vars

----------------------------------------------------------------------------
(* Properties of the generated parameter points, checked on SpecCombos.    *)

\* the value list declared for a sweep variable
ValuesOf(var_name) == Get(experiment.values, var_name, <<>>)

\* every declared sweep variable has its value list
AllListed ==
    \A j \in DOMAIN experiment.sweep_variables :
        Has(experiment.values, experiment.sweep_variables[j])

RECURSIVE LengthProduct(_)
LengthProduct(names) ==
    IF names = <<>> THEN 1
    ELSE Len(ValuesOf(Head(names))) * LengthProduct(Tail(names))

\* where in its declared list the value of a sweep variable in a combination is
\* (0 when the combination has no value of the list)
PositionIn(combo, var_name) ==
    IF \E i \in DOMAIN ValuesOf(var_name) :
           ValuesOf(var_name)[i] = Get(combo, var_name, -1)
    THEN CHOOSE i \in DOMAIN ValuesOf(var_name) :
             ValuesOf(var_name)[i] = Get(combo, var_name, -1)
    ELSE 0

\* point p comes before point q in nested-loop order: at the first declared
\* variable where they differ, p has the earlier value
NestedBefore(p, q) ==
    \E j \in DOMAIN experiment.sweep_variables :
        /\ PositionIn(p, experiment.sweep_variables[j])
               < PositionIn(q, experiment.sweep_variables[j])
        /\ \A i \in 1..(j - 1) :
               PositionIn(p, experiment.sweep_variables[i])
                   = PositionIn(q, experiment.sweep_variables[i])

\* C14: with the sweep variables declared and each given its value list,
\* the generated points are one per element of the product of the lists,
\* each holding a listed value of every sweep variable, in nested-loop
\* order with the last-declared variable varying fastest (for [A, B] with
\* A_values = [1, 2] and B_values = [10, 20]: (1,10), (1,20), (2,10),
\* (2,20)), and the run walks them in that order.
C14_RowMajorOrder ==
    (combinations # None /\ experiment.sweep_variables # <<>> /\ AllListed)
    => LET generated == combinations[1]
       IN /\ Len(generated) = LengthProduct(experiment.sweep_variables)
          /\ \A k \in DOMAIN generated :
                \A j \in DOMAIN experiment.sweep_variables :
                    PositionIn(generated[k], experiment.sweep_variables[j]) # 0
          /\ \A k, m \in DOMAIN generated :
                k < m => NestedBefore(generated[k], generated[m])
          /\ visited = SubSeq(generated, 1, Len(visited))
          /\ (/\ experiment.sweep_variables = <<"A", "B">>
              /\ ValuesOf("A") = <<1, 2>>
              /\ ValuesOf("B") = <<10, 20>>)
             => [k \in DOMAIN generated |->
                    <<Get(generated[k], "A", 0), Get(generated[k], "B", 0)>>]
                = <<<<1, 10>>, <<1, 20>>, <<2, 10>>, <<2, 20>>>>

C14_Witness ==
    /\ experiment.sweep_variables = <<"A", "B">>
    /\ ValuesOf("A") = <<1, 2>>
    /\ ValuesOf("B") = <<10, 20>>
    /\ combinations # None
    /\ Len(visited) = 4
    /\ Get(visited[2], "B", 0) = 20

----------------------------------------------------------------------------
(* Properties of the records of a completed run.                           *)

\* the run's measurement loop has ended without an exception
Completed == pc \in {"loop_done", "ran"} /\ exc = ""

\* the length of the IREFP list the run was given: run() replaces an empty
\* list by the list of the single value 0
DeclaredIrefp == IF irefp_values = <<0>> THEN 0 ELSE Len(irefp_values)

\* product of the sweep-list lengths times the number of modes
DeclaredRecords ==
    IF runner = "Programmer"
    THEN DeclaredIrefp * Len(prog_in_values) * Len(Modes)
    ELSE Len(x1_values) * Len(Modes)

RecordCount == Cardinality(Rows(csv.file)) = DeclaredRecords

\* every force-current command sent after the first measurement of the run
\* changes the current of its channel
OnlyDeltaWrites ==
    \A k \in PointPositions :
        (/\ PointExecutions # {}
         /\ k > First(PointExecutions)
         /\ log[k].inst \in SMUs
         /\ log[k].op = "DI")
        => parse_number(log[k].args[1])
               # CurrentAt(k, log[k].inst, log[k].chs)

\* C15: a completed Programmer or Compute run has written exactly (product
\* of the sweep-list lengths) x (number of modes) records, and after the
\* full write of the first point every later point is preceded only by
\* writes that change a source.
C15_RecordsAndDeltaWrites ==
    (runner \in {"Programmer", "Compute"} /\ Completed)
    => RecordCount /\ (runner = "Compute" => OnlyDeltaWrites)

\* a sweep list the run was given is empty
DeclaredEmpty ==
    \/ runner = "Programmer" /\ (DeclaredIrefp = 0 \/ prog_in_values = <<>>)
    \/ runner = "Compute" /\ x1_values = <<>>

\* C16: a run given an empty sweep list takes no measurement point (the
\* list is not treated as a single-point sweep) and its measurement loop
\* never completes: the run fails instead.
C16_EmptyListFails == DeclaredEmpty => (measurement_num = 0 /\ ~Completed)

\* a Compute run has failed on its empty X1_values list
FailedOnEmptyList ==
    runner = "Compute" /\ x1_values = <<>> /\ exc = "ValueError"

\* C17: when a run fails because a sweep list is empty, no enable, force,
\* configure or measure command has been sent to any instrument.
C17_FailsBeforeHardware ==
    FailedOnEmptyList
    => /\ Positions(IsEnable) = {}
       /\ Positions(IsForce) = {}
       /\ Positions(IsPointCommand) = {}
       /\ Positions(IsPulseConfig) = {}

----------------------------------------------------------------------------
(* Properties of the mode-dependent terminal ERASE_PROG.                   *)

\* the positions of a set in increasing order
Ordered(S) == SelectSeq([k \in 1..Len(log) |-> k], LAMBDA k : k \in S)

\* the n-th element of a sequence of positions, 0 when it has fewer
Nth(positions, n) == IF n \in DOMAIN positions THEN positions[n] ELSE 0

\* the last command before position f that passes a test, 0 for none
LastBefore(f, Test(_)) == Last({k \in 1..(f - 1) : Test(log[k])})

IsEraseProgPulseCommand(c, op) ==
    /\ c.inst = config.terminals["ERASE_PROG"].instrument
    /\ c.op = op
    /\ c.chs = <<config.terminals["ERASE_PROG"].channel>>

\* the level last commanded on the pulse-generator output of ERASE_PROG
\* before position f: with polarity INV the output idles at its HIGH level,
\* with NORM at its LOW level (-1 when the output was never programmed)
PulseOutputLevel(f) ==
    LET pol == LastBefore(f, LAMBDA c : IsEraseProgPulseCommand(c, ":OUTP:POL"))
        lev == IF pol # 0 /\ log[pol].str = "INV"
               THEN LastBefore(f, LAMBDA c :
                                   IsEraseProgPulseCommand(c, ":VOLT:HIGH"))
               ELSE LastBefore(f, LAMBDA c :
                                   IsEraseProgPulseCommand(c, ":VOLT:LOW"))
    IN IF pol = 0 \/ lev = 0 THEN -1 ELSE parse_number(log[lev].args[1])

\* the level last commanded on ERASE_PROG before position f
EraseProgLevel(f) ==
    IF config.terminals["ERASE_PROG"].measurement_type = "PPG"
    THEN PulseOutputLevel(f)
    ELSE LET k == LastBefore(f, IsEraseProgForce)
         IN IF k = 0 THEN -1 ELSE parse_number(log[k].args[1])

\* the rows written so far, in order
Records == SelectSeq(csv.file, LAMBDA line : line.kind = "row")

ModeOf(row) == IF runner = "Programmer" THEN row.cols.MODE ELSE row.cols.PPG_state

ModeLevel(mode) == IF mode = "ERASE" THEN VCC ELSE 0

\* where the measurements of the n-th record were executed, given the
\* point executions and the counter fetches in order: in a Programmer run
\* the two ICELLMEAS spot measurements and the counter fetch between them,
\* in a Compute run the spot measurement
CellMeasurements(executions, n) ==
    IF runner = "Programmer"
    THEN {Nth(executions, 2 * n - 1), Nth(executions, 2 * n)}
    ELSE {}

PulseMeasurements(executions, fetches, n) ==
    IF runner = "Programmer" THEN {Nth(fetches, n)} ELSE {Nth(executions, n)}

----------------------------------------------------------------------------
(* Properties of the terminal operations, checked on SpecCalls.            *)

\* the operations that take the name of a terminal
TerminalOperations ==
    {"set_terminal_voltage", "set_terminal_current", "enable_gndu",
     "set_pulse", "set_ppg_dc_mode", "measure_frequency",
     "measure_terminal_current"}

\* the step is a call of a terminal operation that passes a test on the
\* call made
TerminalCall(Test(_)) ==
    /\ calls' = calls + 1
    /\ last_call'.op \in TerminalOperations
    /\ Test(last_call')

\* the call raised ValueError, sent nothing, created no instrument and left
\* the recorded terminal states as they were
FailedUntouched ==
    /\ last_call'.raised = "ValueError"
    /\ last_call'.sent = <<>>
    /\ log' = log
    /\ instruments' = instruments
    /\ terminal_states' = terminal_states

UnknownName(call) == call.terminal \notin DOMAIN config.terminals

\* C19: a terminal operation called with a name that is not in the
\* experiment's terminal table fails, and it creates no instrument, sends
\* no command and leaves the recorded terminal states unchanged.
C19_UnknownTerminalFails == [][TerminalCall(UnknownName) => FailedUntouched]_vars

\* an operation was called with an unknown name and failed after an earlier
\* call had created an instrument and recorded a terminal state
C19_Witness ==
    /\ UnknownName(last_call)
    /\ last_call.op = "measure_terminal_current"
    /\ last_call.raised = "ValueError"
    /\ instruments # <<>>
    /\ \E t \in DOMAIN terminal_states : terminal_states[t] # None

\* the call is a set-voltage on a terminal that is neither V nor VSU, or a
\* set-current on a terminal that is not I
WrongKind(call) ==
    /\ call.terminal \in DOMAIN config.terminals
    /\ \/ /\ call.op = "set_terminal_voltage"
          /\ config.terminals[call.terminal].measurement_type
                 \notin {"V", "VSU"}
       \/ /\ call.op = "set_terminal_current"
          /\ config.terminals[call.terminal].measurement_type # "I"

\* C20: set_terminal_voltage on a terminal whose kind is not V or VSU, and
\* set_terminal_current on a terminal whose kind is not I, fail; no command
\* is sent and the recorded terminal states are unchanged.
C20_WrongKindFails == [][TerminalCall(WrongKind) => FailedUntouched]_vars

\* a voltage was asked of a current terminal after an earlier call had
\* recorded a terminal state
C20_Witness ==
    /\ WrongKind(last_call)
    /\ last_call.op = "set_terminal_voltage"
    /\ config.terminals[last_call.terminal].measurement_type = "I"
    /\ last_call.raised = "ValueError"
    /\ \E t \in DOMAIN terminal_states : terminal_states[t] # None


----------------------------------------------------------------------------
(* C21: a failed instrument write of set_terminal_voltage or               *)
(* set_terminal_current                                                    *)

IsSetCall(call) == call.op \in {"set_terminal_voltage", "set_terminal_current"}

\* C21: when the instrument write of a set_terminal_voltage or
\* set_terminal_current call raises, the call raises to its caller, the
\* failed command is attempted once and is not sent again, and the recorded
\* state of every terminal keeps its value; a call changes the recorded
\* state only when it raised nothing
C21_FailedWriteKeepsState ==
    [][(calls' = calls + 1 /\ IsSetCall(last_call'))
       => /\ failed' # failed
             => /\ last_call'.raised = "VisaIOError"
                /\ Len(failed') = Len(failed) + 1
                /\ last_call'.sent = <<>>
                /\ terminal_states' = terminal_states
          /\ terminal_states' # terminal_states
             => /\ last_call'.raised = ""
                /\ failed' = failed]_vars

\* a call that failed on the bus after an earlier call had recorded another
\* value for the same terminal, which the terminal still has
C21_Witness ==
    /\ IsSetCall(last_call)
    /\ last_call.raised = "VisaIOError"
    /\ failed # <<>>
    /\ calls = 2
    /\ last_call.terminal \in DOMAIN terminal_states
    /\ terminal_states[last_call.terminal] # None
    /\ terminal_states[last_call.terminal] # Some(last_call.value)


----------------------------------------------------------------------------
(* C22: which error reports end the run                                    *)

\* the queries of a check: the error query and, on the 5270B, the query of
\* the message of an error it answered
IsCheckQuery(c) == IsErrorQuery(c) \/ c.op = "EMG?"

\* the error-queue checks of the log: each is a maximal run of check
\* queries, given as its first and last position
Checks ==
    LET E == {i \in DOMAIN log : IsCheckQuery(log[i])}
    IN {<<a, b>> \in E \X E :
           /\ a <= b
           /\ a - 1 \notin E
           /\ b + 1 \notin E
           /\ \A i \in a..b : i \in E}

\* the instruments that reported at least one error in a check: those that
\* were queried again after their first answer
ReportedIn(check) ==
    {inst \in DEFAULT_ADDRESSES :
        Cardinality({i \in check[1]..check[2] :
                        log[i].inst = inst /\ IsErrorQuery(log[i])}) >= 2}

\* the check ended the run: SystemExit is propagating and no later command
\* of the run follows the check
Aborted(check) ==
    /\ exc = "SystemExit"
    /\ pc \in {"failed", "exited"}
    /\ pc = "failed" => check[2] = Len(log)
    /\ \A other \in Checks : other[2] <= check[2]

\* C22: a check in which only the counter reported errors does not end the
\* run, a check in which another instrument reported an error ends it
\* whether or not the counter reported too, and a check in which nothing
\* was reported never ends it
C22_OnlyNonCounterErrorsAbort ==
    LET checks == Checks
    IN /\ \A check \in checks :
              ReportedIn(check) \ {"CT53230A"} # {} <=> Aborted(check)
       /\ exc = "SystemExit" => \E check \in checks : Aborted(check)

\* a check in which the counter alone reported an error, after which the run
\* went on to send further commands
C22_Witness ==
    \E check \in Checks :
        /\ ReportedIn(check) = {"CT53230A"}
        /\ exc = ""
        /\ pc \notin {"failed", "exited"}
        /\ check[2] < Len(log)


----------------------------------------------------------------------------
(* C23: the error check of point iteration                                 *)

\* the step sent an error query
ChecksErrors ==
    \E i \in Len(log) + 1..Len(log') : IsErrorQuery(log'[i])

\* the step appended the first row of the run to the CSV file
AppendsFirstRecord ==
    /\ Rows(csv.file) = {}
    /\ Cardinality(Rows(csv'.file)) = 1

----------------------------------------------------------------------------
(* C24: a run that fails inside the with statement                         *)

\* the first command of an instrument's idle()
IsIdleCommand(c) ==
    \/ c.inst \in SMUs /\ c.op = "CL"
    \/ c.inst = "PG81104A" /\ c.op = ":OUTP" /\ c.str = "OFF"
    \/ c.inst = "CT53230A" /\ c.op = "ABOR"

\* the step attempted to idle the instrument: the command was sent, or its
\* write raised
IdleAttempted(inst) ==
    \/ \E i \in Len(log) + 1..Len(log') :
           log'[i].inst = inst /\ IsIdleCommand(log'[i])
    \/ \E j \in Len(failed) + 1..Len(failed') :
           failed'[j].inst = inst /\ IsIdleCommand(failed'[j])

\* the step closed the instrument after every write it attempted
ClosedLast(inst) ==
    \E k \in Len(closed) + 1..Len(closed') :
        /\ closed'[k].inst = inst
        /\ closed'[k].writes = Len(log') + Len(failed')

\* C24: once run() has raised, the only step left is the tear-down of
\* __exit__: it sends nothing but idle commands, appends no row, idles and
\* then closes every initialized instrument whatever the idling of another
\* one raised, and leaves the exception of run() to the caller
C24_FailureTearsDown ==
    [][pc = "failed"
       => /\ exc # ""
          /\ pc' = "exited"
          /\ exc' = exc
          /\ csv'.file = csv.file
          /\ csv'.latest = csv.latest
          /\ \A i \in Len(log) + 1..Len(log') : IsIdleCommand(log'[i])
          /\ \A inst \in Range(instruments) :
                 IdleAttempted(inst) /\ ClosedLast(inst)
          /\ instruments' = <<>>]_vars

\* a failed run whose tear-down could not idle one instrument, and idled and
\* closed the others all the same
C24_Witness ==
    /\ pc = "exited"
    /\ exc # ""
    /\ bringup_end # -1
    /\ failed # <<>>
    /\ IsIdleCommand(failed[Len(failed)])
    /\ \E i \in DOMAIN log :
           /\ IsIdleCommand(log[i])
           /\ log[i].inst # failed[Len(failed)].inst
           /\ i > bringup_end
    /\ Len(closed) >= 3


----------------------------------------------------------------------------
(* Functions applied on their own: the parsing of an instrument response   *)
(* and convert_normalized_to_current, each given one input.                *)

\* the values a well-formed response can carry
ReadingValues == {-5, 0, 5}

\* an instrument response: text that float() accepts, carrying a value, or
\* text that it does not
Responses ==
    {[wellformed |-> FALSE, value |-> 0]}
        \cup {[wellformed |-> TRUE, value |-> v] : v \in ReadingValues}

\* measure_icellmeas_current: float(data.split("I")[1].strip()), 0.0 on
\* IndexError or ValueError
measure_icellmeas_current_parse(data) ==
    IF data.wellformed THEN data.value ELSE 0

\* measure_irefp_voltage: float(data.split("V")[1].split(",")[0].strip()),
\* 0.0 on IndexError or ValueError
measure_irefp_voltage_parse(data) ==
    IF data.wellformed THEN data.value ELSE 0

\* CT53230A.fetch: float(response.strip()), 0.0 on ValueError
CT53230A_fetch_parse(response) ==
    IF response.wellformed THEN response.value ELSE 0

\* execute_spot_measurement: results["OUT1_current"] starts as 0.0 and is
\* assigned only when a float() of the cleaned part succeeds
execute_spot_measurement_parse(data) ==
    IF data.wellformed THEN data.value ELSE 0

ParseFunctions ==
    {"measure_icellmeas_current", "measure_irefp_voltage", "fetch",
     "execute_spot_measurement"}

\* what the named method returns for a response
Parse(fn, data) ==
    CASE fn = "measure_icellmeas_current" ->
             measure_icellmeas_current_parse(data)
      [] fn = "measure_irefp_voltage" -> measure_irefp_voltage_parse(data)
      [] fn = "fetch" -> CT53230A_fetch_parse(data)
      [] fn = "execute_spot_measurement" ->
             execute_spot_measurement_parse(data)

\* parameter names given to the conversion: the normalized variables, IREFP,
\* a terminal name, and a name of no parameter
ConvertNames ==
    NORMALIZED_HALF_VARS \cup NORMALIZED_FULL_VARS
        \cup {"IREFP", "KGAIN1", "OTHER"}

\* normalized values -1.0, -0.5, 0, 0.5 and 1.0
ConvertValues == -NORMALIZED_UNIT..NORMALIZED_UNIT

\* IREFP of 10e-9 A and 100e-9 A, in picoamperes
ConvertIrefps == {10000, 100000}

\* the text of a response, one character to an element; the message that
\* follows an error code is cut to its first letter
NoErrorText5270 == <<"0", ":", " ", "N">>
NoErrorTextScpi == <<"+", "0", ",", "N">>
NoErrorTextPlain == <<" ", "0", " ">>
ErrorText5270 == <<"1", "0", "0", ":", " ", "E">>
ErrorTextScpi == <<"-", "1", ",", "E">>
ErrorTextPlain == <<"1", "0">>

\* what error_query can give at one try: it raises, or it returns a text
\* whose error code is zero or is not
Replies ==
    {[failed |-> TRUE, text |-> <<>>, no_error |-> FALSE]}
        \cup {[failed |-> FALSE, text |-> t, no_error |-> TRUE] :
                 t \in {NoErrorText5270, NoErrorTextScpi, NoErrorTextPlain}}
        \cup {[failed |-> FALSE, text |-> t, no_error |-> FALSE] :
                 t \in {ErrorText5270, ErrorTextScpi, ErrorTextPlain}}

Digits == {"0", "1"}

\* str.strip()
RECURSIVE lstrip(_)
lstrip(text) ==
    IF text # <<>> /\ Head(text) = " " THEN lstrip(Tail(text)) ELSE text

RECURSIVE rstrip(_)
rstrip(text) ==
    IF text # <<>> /\ text[Len(text)] = " "
    THEN rstrip(SubSeq(text, 1, Len(text) - 1))
    ELSE text

strip(text) == rstrip(lstrip(text))

\* str.startswith(prefix)
startswith(text, prefix) ==
    Len(text) >= Len(prefix) /\ SubSeq(text, 1, Len(prefix)) = prefix

\* text.split(",")[0]: the text up to its first comma
RECURSIVE before_comma(_)
before_comma(text) ==
    IF text = <<>> \/ Head(text) = "," THEN <<>>
    ELSE <<Head(text)>> \o before_comma(Tail(text))

\* the value of a text of digits
RECURSIVE digits_value(_)
digits_value(text) ==
    IF text = <<>> THEN 0
    ELSE 10 * digits_value(SubSeq(text, 1, Len(text) - 1))
             + (IF text[Len(text)] = "1" THEN 1 ELSE 0)

\* int(text): the number read, None for ValueError
int(text) ==
    LET t == strip(text)
        signed == t # <<>> /\ Head(t) \in {"+", "-"}
        body == IF signed THEN Tail(t) ELSE t
    IN IF body = <<>> \/ \E k \in DOMAIN body : body[k] \notin Digits
       THEN None
       ELSE Some(IF signed /\ Head(t) = "-" THEN -digits_value(body)
                 ELSE digits_value(body))

\* _is_no_error recognising the two prefixes only
_is_no_error_prefixes_only(response) ==
    LET r == strip(response)
    IN startswith(r, <<"0", ":">>) \/ startswith(r, <<"0", ",">>)

\* InstrumentBase._is_no_error
_is_no_error(response) ==
    LET r == strip(response)
        error_code == int(before_comma(r))
    IN IF startswith(r, <<"0", ":">>) THEN TRUE
       ELSE IF startswith(r, <<"0", ",">>) /\ error_code # None
       THEN error_code[1] = 0
       ELSE IF error_code # None THEN error_code[1] = 0
       ELSE FALSE

\* the entry appended for a query that raised
QueryFailure == [failed |-> TRUE, text |-> <<>>]

\* the loop of check_all_errors from its i-th pass on: the errors collected
\* and the number of error queries made
RECURSIVE check_all_errors_from(_, _, _, _)
check_all_errors_from(i, max_tries, replies, errors) ==
    IF i >= max_tries THEN [errors |-> errors, queries |-> i]
    ELSE IF replies[i + 1].failed
    THEN check_all_errors_from(i + 1, max_tries, replies,
                               Append(errors, QueryFailure))
    ELSE IF _is_no_error(replies[i + 1].text)
    THEN [errors |-> errors, queries |-> i + 1]
    ELSE check_all_errors_from(
             i + 1, max_tries, replies,
             Append(errors, [failed |-> FALSE, text |-> replies[i + 1].text]))

\* InstrumentBase.check_all_errors(max_tries) on an instrument whose
\* error_query gives the replies in turn
InstrumentBase_check_all_errors(max_tries, replies) ==
    IF test_mode THEN [errors |-> <<>>, queries |-> 0]
    ELSE check_all_errors_from(0, max_tries, replies, <<>>)

Applications ==
    {[NoApplication EXCEPT !.fn = fn, !.data = data] :
        fn \in ParseFunctions, data \in Responses}
    \cup {[NoApplication EXCEPT !.fn = "convert_normalized_to_current",
                                !.name = name, !.x = x, !.irefp = irefp] :
             name \in ConvertNames, x \in ConvertValues,
             irefp \in ConvertIrefps}
    \cup {[NoApplication EXCEPT !.fn = "check_all_errors",
                                !.max_tries = max_tries,
                                !.replies = replies] :
             max_tries \in 0..MaxTries, replies \in [1..MaxTries -> Replies]}

InitFunctions ==
    /\ runner = "Compute"
    /\ pc = "apply"
    /\ faults_left = 0
    /\ irefp_values = <<>>
    /\ prog_in_values = <<>>
    /\ x1_values = <<>>
    /\ Unswept
    /\ Constructed
    /\ applied \in Applications
    /\ test_mode \in IF applied.fn = "check_all_errors" THEN BOOLEAN
                     ELSE {TRUE}

Unapplied ==
    UNCHANGED <<runner, test_mode, log, terminal_states, instruments, exc,
                faults_left, failed, closed, csv, measurement_num, mode_i,
                irefp_i, prog_in_i, vrefp, irefp_values, prog_in_values,
                x1_values, current_ppg_state, glitches, bringup_end,
                loop_end, calls, last_call, experiment, combinations,
                visited>>

Apply(fn, result) ==
    /\ pc = "apply"
    /\ applied.fn = fn
    /\ applied' = [applied EXCEPT !.result = Some(result)]
    /\ pc' = "applied"
    /\ Unapplied

ApplyMeasureIcellmeasCurrent ==
    Apply("measure_icellmeas_current",
          measure_icellmeas_current_parse(applied.data))

ApplyMeasureIrefpVoltage ==
    Apply("measure_irefp_voltage", measure_irefp_voltage_parse(applied.data))

ApplyFetch == Apply("fetch", CT53230A_fetch_parse(applied.data))

ApplyExecuteSpotMeasurement ==
    Apply("execute_spot_measurement",
          execute_spot_measurement_parse(applied.data))

ApplyConvertNormalizedToCurrent ==
    Apply("convert_normalized_to_current",
          convert_normalized_to_current(applied.name, applied.x,
                                        applied.irefp))

ApplyCheckAllErrors ==
    Apply("check_all_errors",
          InstrumentBase_check_all_errors(applied.max_tries,
                                          applied.replies))

NextFunctions ==
    \/ ApplyCheckAllErrors
    \/ ApplyMeasureIcellmeasCurrent
    \/ ApplyMeasureIrefpVoltage
    \/ ApplyFetch
    \/ ApplyExecuteSpotMeasurement
    \/ ApplyConvertNormalizedToCurrent

SpecFunctions == InitFunctions /\ [][NextFunctions]_vars

----------------------------------------------------------------------------
(* C25: a response that cannot be parsed                                   *)

\* C25: the value returned for a response that cannot be parsed is one that
\* no well-formed response yields, so that the record that carries it can be
\* told from a record of a valid measurement
C25_SentinelDistinguishable ==
    (applied.fn \in ParseFunctions /\ applied.result # None
     /\ ~applied.data.wellformed)
    => \A data \in Responses :
           data.wellformed => Some(Parse(applied.fn, data)) # applied.result


----------------------------------------------------------------------------
(* C26: the current columns of a Compute row                               *)

\* the columns of a Compute row that carry the current of a terminal
CurrentColumns ==
    {"KGAIN1", "KGAIN2", "TRIM1", "TRIM2", "X2", "IREFP", "F11", "F12", "X1",
     "IMEAS"}

----------------------------------------------------------------------------
(* C27: the header and the rows of the CSV files                           *)

\* the header row of the experiment
HeaderOf(experiment_runner) ==
    IF experiment_runner = "Programmer" THEN ProgrammerHeader
    ELSE ComputeHeader

\* the file starts with the header of the experiment and holds data rows
\* only after it
HeaderThenRows(file) ==
    /\ file # <<>>
    /\ file[1] = HeaderOf(runner)
    /\ \A i \in 2..Len(file) : file[i].kind = "row"

\* C27: each of the two CSV files a Programmer or Compute run has opened
\* starts with the header row of the experiment, written once, and holds
\* after it one data row for every record of the run
C27_HeaderOnceInEachFile ==
    (runner \in {"Programmer", "Compute"} /\ csv.initialized)
    => /\ HeaderThenRows(csv.file)
       /\ HeaderThenRows(csv.latest)
       /\ Len(csv.file) = Len(csv.latest)


----------------------------------------------------------------------------
(* C28, C29: convert_normalized_to_current                                 *)

\* the conversion has been applied to its arguments
Converted ==
    applied.fn = "convert_normalized_to_current" /\ applied.result # None

\* C28: the conversion returns IREFP/2 * (x + 1) for X1, X2, F11, F12 and
\* IMEAS, IREFP * x for KGAIN and TRIM and x itself for every other name;
\* so -1 gives 0 and +1 gives IREFP for the half-range variables, and 0
\* gives 0 and 1 gives IREFP for the full-range variables
C28_ConversionFormulas ==
    Converted =>
        LET current == applied.result[1]
            x == applied.x
        IN IF applied.name \in {"X1", "X2", "F11", "F12", "IMEAS"}
           THEN /\ current * 2 * NORMALIZED_UNIT
                       = applied.irefp * (x + NORMALIZED_UNIT)
                /\ x = -NORMALIZED_UNIT => current = 0
                /\ x = NORMALIZED_UNIT => current = applied.irefp
           ELSE IF applied.name \in {"KGAIN", "TRIM"}
           THEN /\ current * NORMALIZED_UNIT = applied.irefp * x
                /\ x = 0 => current = 0
                /\ x = NORMALIZED_UNIT => current = applied.irefp
           ELSE current = x

\* KGAIN at 1.0 has been converted to IREFP
C28_Witness ==
    /\ Converted
    /\ applied.name = "KGAIN"
    /\ applied.x = NORMALIZED_UNIT
    /\ applied.result = Some(applied.irefp)

\* the normalized value that the formulas give back for a current: 
\* 2 * I / IREFP - 1 for the half-range variables, I / IREFP for the others
Inverse(name, current, irefp) ==
    IF name \in NORMALIZED_HALF_VARS
    THEN (2 * NORMALIZED_UNIT * current) \div irefp - NORMALIZED_UNIT
    ELSE (NORMALIZED_UNIT * current) \div irefp

\* the normalized values the round trip is claimed for
InRange(name, x) ==
    \/ name \in NORMALIZED_HALF_VARS
    \/ name \in NORMALIZED_FULL_VARS /\ x >= 0

----------------------------------------------------------------------------
(* C30: the DC level of the pulse generator after set_ppg_state            *)

\* every command the pulse generator has received was sent by set_ppg_state:
\* its output was set up for DC once, by the first of the calls, and no
\* pulse was ever programmed
OnlyPpgStateCalls ==
    /\ Count(LAMBDA c : IsEraseProgPulseCommand(c, ":VOLT:LOW")) = 1
    /\ Count(LAMBDA c : c.inst = "PG81104A" /\ c.op = ":PULS:WIDT") = 0

\* C30: after a call of ComputeExperiment.set_ppg_state, whatever calls of
\* it came before, the pulse generator idles at the voltage of the state
\* asked for (HIGH under INV, LOW under NORM): VCC for ERASE, 0 V for
\* PROGRAM
C30_LevelOfRequestedState ==
    (last_call.op = "set_ppg_state" /\ last_call.raised = ""
     /\ OnlyPpgStateCalls)
    => PulseOutputLevel(Len(log) + 1) = last_call.value

----------------------------------------------------------------------------
(* C31: what set_ppg_state sends on its first and on its later calls       *)

\* the step is a call of ComputeExperiment.set_ppg_state
IsPpgStateCall == calls' = calls + 1 /\ last_call'.op = "set_ppg_state"

\* the state the call of this step asked for
RequestedState == IF last_call'.value = VCC THEN "ERASE" ELSE "PROGRAM"

\* the commands of set_dc_output on the ERASE_PROG channel at a voltage
DcInitialization(voltage) ==
    Sent(PG81104A_set_dc_output(
             [Self EXCEPT !.insts = Append(@, "PG81104A")],
             config.terminals["ERASE_PROG"].channel, voltage))

\* C31: ComputeExperiment.set_ppg_state sets the output up for DC (the
\* seven commands of set_dc_output) only on its first call, the one made
\* while no state is tracked, and a state once tracked is never forgotten; a
\* later call asking for the other state sends exactly one command, the
\* polarity (INV for ERASE, NORM for PROGRAM); a call asking for the tracked
\* state sends nothing; after every call the tracked state is the one asked
\* for
C31_FullSetupOnFirstCallOnly ==
    [][/\ current_ppg_state # "" => current_ppg_state' # ""
       /\ IsPpgStateCall =>
          /\ current_ppg_state' = RequestedState
          /\ current_ppg_state = ""
             => /\ Len(last_call'.sent) = 7
                /\ last_call'.sent
                       = DcInitialization(last_call'.value)
          /\ (current_ppg_state # "" /\ current_ppg_state # RequestedState)
             => last_call'.sent
                    = <<PG(":OUTP:POL",
                           <<config.terminals["ERASE_PROG"].channel>>, <<>>,
                           IF RequestedState = "ERASE" THEN "INV"
                           ELSE "NORM")>>
          /\ current_ppg_state = RequestedState => last_call'.sent = <<>>]_vars

\* a second call has moved the generator from PROGRAM to ERASE with the one
\* command :OUTP:POL INV
C31_Witness ==
    /\ last_call.op = "set_ppg_state"
    /\ current_ppg_state = "ERASE"
    /\ Len(last_call.sent) = 1
    /\ last_call.sent[1].op = ":OUTP:POL"
    /\ last_call.sent[1].str = "INV"
    /\ Count(LAMBDA c : IsEraseProgPulseCommand(c, ":VOLT:LOW")) = 1

----------------------------------------------------------------------------
(* C32: ERASE_PROG around the measurements of a Programmer point           *)

\* the first command forcing ERASE_PROG after position f, 0 for none
NextEraseProgForce(f) ==
    First({k \in (f + 1)..Len(log) : IsEraseProgForce(log[k])})

\* C32: in a Programmer run every ICELLMEAS spot measurement (the START and
\* the FINAL one of each point) is executed with ERASE_PROG last commanded
\* to 0 V, in both modes; every arm, trigger and fetch of the handshake is
\* sent with ERASE_PROG last commanded to the level of the point's mode
\* (VCC in ERASE mode, 0 V in PROGRAM mode); and in ERASE mode the command
\* forcing ERASE_PROG that follows an ICELLMEAS measurement restores VCC
C32_LoweredAroundCellMeasurement ==
    runner = "Programmer" =>
        \A records \in {Records},
           executions \in {Ordered(PointExecutions)},
           handshakes \in {Ordered(Positions(IsHandshake))} :
           /\ Len(executions) = 2 * Len(records)
           /\ Len(handshakes) = 3 * Len(records)
           /\ \A n \in DOMAIN records :
                  /\ \A j \in {2 * n - 1, 2 * n} :
                         /\ EraseProgLevel(executions[j]) = 0
                         /\ records[n].cols.MODE = "ERASE" =>
                                \A restored \in
                                    {NextEraseProgForce(executions[j])} :
                                    /\ restored # 0
                                    /\ EraseProgLevel(restored + 1) = VCC
                  /\ \A j \in {3 * n - 2, 3 * n - 1, 3 * n} :
                         EraseProgLevel(handshakes[j])
                             = ModeLevel(records[n].cols.MODE)

\* an ERASE point and a PROGRAM point have been measured, each with its two
\* ICELLMEAS measurements and its handshake
C32_Witness ==
    /\ runner = "Programmer"
    /\ Cardinality(PointExecutions) >= 4
    /\ \E n \in DOMAIN Records : Records[n].cols.MODE = "ERASE"
    /\ \E n \in DOMAIN Records : Records[n].cols.MODE = "PROGRAM"
    /\ \E k \in Positions(IsHandshake) : EraseProgLevel(k) = VCC
    /\ \E k \in Positions(IsHandshake) : EraseProgLevel(k) = 0

----------------------------------------------------------------------------
(* C33: the order of the Programmer bring-up                               *)

\* the command that enables the output of the pulse generator for WR_ENB
IsPpgOutputEnable(c) ==
    /\ c.inst = "PG81104A"
    /\ c.op = ":OUTP"
    /\ c.chs = <<PROGRAMMER_TERMINALS["WR_ENB"].channel>>
    /\ c.str = "ON"

\* the force commands of the bring-up, as positions of the log
BringUpForces == {k \in Positions(IsForce) : k <= bringup_end}

\* the pulse generator's output is enabled before any SMU force command
PpgBeforeEveryForce ==
    LET enabled == First(Positions(IsPpgOutputEnable))
    IN enabled # 0 /\ \A k \in BringUpForces : enabled < k

\* every voltage is forced before the currents of IREFP and PROG_IN
VoltagesBeforeSweptCurrents ==
    \A v \in {k \in BringUpForces : log[k].op = "DV"} :
        \A c \in {k \in BringUpForces :
                     IsForceOn(log[k], "IREFP") \/ IsForceOn(log[k], "PROG_IN")} :
            v < c

\* the last force command of the bring-up is PROG_OUT's current
ProgOutLast ==
    /\ BringUpForces # {}
    /\ IsForceOn(log[Last(BringUpForces)], "PROG_OUT")
    /\ log[Last(BringUpForces)].op = "DI"

\* C33: in the bring-up of a Programmer run the pulse generator is
\* configured and its output enabled before any SMU force command is sent,
\* every voltage source is set before the current sources IREFP and
\* PROG_IN, and PROG_OUT's current source is the last channel configured
C33_PpgThenVoltagesThenCurrents ==
    (runner = "Programmer" /\ bringup_end # -1) =>
        /\ PpgBeforeEveryForce
        /\ VoltagesBeforeSweptCurrents
        /\ ProgOutLast

----------------------------------------------------------------------------
(* C34: check_all_errors                                                   *)

\* check_all_errors has been applied to its arguments
Checked == applied.fn = "check_all_errors" /\ applied.result # None

\* the first of the tries allowed whose reply has error code zero, 0 when
\* there is none
FirstNoError ==
    First({k \in 1..applied.max_tries :
              ~applied.replies[k].failed /\ applied.replies[k].no_error})

\* the replies up to the n-th, without their error codes' meaning
SeenUpTo(n) ==
    [k \in 1..n |-> [failed |-> applied.replies[k].failed,
                     text |-> applied.replies[k].text]]

\* C34: check_all_errors(max_tries) makes at most max_tries error queries
\* and stops at the first reply that says "no error" (error code zero, in
\* any of the formats of the instruments); it returns the replies it saw
\* that carry an error and an entry for each query that failed, in the
\* order seen, so an empty list when the first reply is "no error"; in
\* TEST_MODE it makes no query and returns an empty list
C34_ErrorsUntilNoError ==
    Checked =>
        LET returned == applied.result[1]
            stop == FirstNoError
        IN /\ returned.queries <= applied.max_tries
           /\ test_mode => returned.queries = 0 /\ returned.errors = <<>>
           /\ ~test_mode =>
                  /\ returned.queries
                         = IF stop # 0 THEN stop ELSE applied.max_tries
                  /\ returned.errors
                         = SeenUpTo(IF stop # 0 THEN stop - 1
                                    ELSE applied.max_tries)
                  /\ stop = 1 => returned.errors = <<>>

\* an error, a failed query and then "no error" in the counter's format:
\* three queries, two entries returned
C34_Witness ==
    /\ Checked
    /\ ~test_mode
    /\ applied.max_tries = 3
    /\ applied.replies[1].text = ErrorText5270
    /\ applied.replies[2].failed
    /\ applied.replies[3].text = NoErrorTextScpi
    /\ applied.result[1].queries = 3
    /\ applied.result[1].errors
           = <<[failed |-> FALSE, text |-> ErrorText5270], QueryFailure>>

----------------------------------------------------------------------------
(* C35: what a generated point holds                                       *)

\* the declared sweep variables that have a value list, in declared order
ListedVariables ==
    SelectSeq(experiment.sweep_variables,
              LAMBDA var_name : Has(experiment.values, var_name))

\* the names that are both a fixed value and a declared sweep variable
FixedAndSwept ==
    {experiment.fixed_values[i].name : i \in DOMAIN experiment.fixed_values}
        \cap Range(experiment.sweep_variables)

\* every point has every key of fixed_values and every sweep variable that
\* has a value list
PointsHoldEveryKey ==
    \A k \in DOMAIN combinations[1] :
        /\ \A i \in DOMAIN experiment.fixed_values :
               Has(combinations[1][k], experiment.fixed_values[i].name)
        /\ \A j \in DOMAIN ListedVariables :
               Has(combinations[1][k], ListedVariables[j])

\* the points carry a value of the sweep list under each of the names
SweepValueCarried(names) ==
    \A name \in names :
        \A k \in DOMAIN combinations[1] :
            PositionIn(combinations[1][k], name) # 0

\* as many points as the product of the lengths of the sweep value lists
PointsCountProduct == Len(combinations[1]) = LengthProduct(ListedVariables)

\* C35: every point returned by generate_experiment_combinations holds
\* every key of fixed_values and every sweep variable that has a value
\* list; under a name that is both in fixed_values and in sweep_variables
\* every point carries the sweep value, not the fixed one; and the number
\* of points is the product of the lengths of the sweep value lists
C35_SweepOverridesFixed ==
    combinations # None =>
        /\ PointsHoldEveryKey
        /\ SweepValueCarried(FixedAndSwept)
        /\ PointsCountProduct

----------------------------------------------------------------------------
(* C36: the channels of the terminal tables                                *)

\* the channel tables of configs/resource_types.py: channel number to
\* channel type
E5270B_CHANNELS ==
    [ch \in 0..8 |-> IF ch = 0 THEN "GNDU"
                     ELSE IF ch <= 4 THEN "HR_SMU" ELSE "MP_SMU"]

A4156B_CHANNELS ==
    [ch \in {1, 2, 3, 4, 21, 22} |-> IF ch <= 4 THEN "SMU" ELSE "VSU"]

A81104A_CHANNELS == [ch \in {1, 2} |-> "PULSE"]

K53230A_CHANNELS == [ch \in {1, 2, 3} |-> "COUNTER_IN"]

INSTRUMENT_CHANNELS ==
    [IV5270B |-> E5270B_CHANNELS, IV4156B |-> A4156B_CHANNELS,
     PG81104A |-> A81104A_CHANNELS, CT53230A |-> K53230A_CHANNELS]

VALID_CHANNEL_TYPES ==
    [V |-> {"HR_SMU", "MP_SMU", "SMU"},
     I |-> {"HR_SMU", "MP_SMU", "SMU"},
     GNDU |-> {"GNDU"},
     VSU |-> {"VSU", "HR_SMU", "MP_SMU", "SMU"},
     PPG |-> {"PULSE"},
     COUNTER |-> {"COUNTER_IN"}]

\* C36: every terminal of the experiment's table is on a channel that its
\* instrument's channel table has and whose type VALID_CHANNEL_TYPES lists
\* for the terminal's measurement type; channel 0 is used by the
\* ground-unit terminal only; and the instrument of every terminal is in
\* the experiment's instruments_used
C36_TerminalsOnValidChannels ==
    \A t \in DOMAIN config.terminals :
        LET cfg == config.terminals[t]
        IN /\ cfg.instrument \in DOMAIN INSTRUMENT_CHANNELS
           /\ cfg.channel \in DOMAIN INSTRUMENT_CHANNELS[cfg.instrument]
           /\ INSTRUMENT_CHANNELS[cfg.instrument][cfg.channel]
                  \in VALID_CHANNEL_TYPES[cfg.measurement_type]
           /\ cfg.channel = 0 => cfg.measurement_type = "GNDU"
           /\ cfg.instrument \in Range(config.instruments_used)

\* a Programmer run has brought up its instruments and driven a terminal of
\* the table on each kind of channel: an SMU, the pulse output and the
\* counter input
C36_Witness ==
    /\ runner = "Programmer"
    /\ bringup_end # -1
    /\ Range(instruments) = Range(config.instruments_used)
    /\ \E t \in DOMAIN config.terminals : config.terminals[t].channel = 0
    /\ Positions(IsProgOutForce) # {}
    /\ Positions(IsPpgOutputEnable) # {}
    /\ Positions(IsFetch) # {}

----------------------------------------------------------------------------
(* C37: the connections a runner opened, once the with statement is left   *)

\* the program has left the with statement: __exit__ has returned, or
\* __enter__ has raised
Left == pc \in {"exited", "enter_failed"}

\* an idle of the instrument has been attempted: its first command was sent
\* or its write raised
IdledOnce(inst) ==
    \/ \E i \in DOMAIN log : log[i].inst = inst /\ IsIdleCommand(log[i])
    \/ \E j \in DOMAIN failed :
           failed[j].inst = inst /\ IsIdleCommand(failed[j])

\* the instrument's connection has been closed
ClosedOnce(inst) == \E k \in DOMAIN closed : closed[k].inst = inst

\* no connection is left open, and those that were opened have been idled
NoneLeftOpen ==
    /\ instruments = <<>>
    /\ \A inst \in DEFAULT_ADDRESSES : ClosedOnce(inst) => IdledOnce(inst)

\* C37: every connection opened by a runner used as a context manager has
\* been idled and closed when the with statement is left, also when
\* startup() failed after some of the instruments of instruments_used had
\* been opened
C37_OpenedAreClosed == Left => NoneLeftOpen

\* the same where the with statement was entered and left through __exit__
EnteredAreClosed == pc = "exited" => NoneLeftOpen

\* startup() has failed on the second connection, the first one being open
StartupFailedHalfWay ==
    /\ pc = "enter_failed"
    /\ Len(instruments) = 1
    /\ closed = <<>>
    /\ failed = <<Connection(config.instruments_used[2])>>

----------------------------------------------------------------------------
(* C38: the instrument map of _get_instrument                              *)

\* the step is a call of _get_instrument
IsGetCall == calls' = calls + 1 /\ last_call'.op = "_get_instrument"

\* the connections opened so far: the drivers in the map and those closed
Connections == Len(instruments) + Len(closed)

\* C38: the map of _get_instrument holds at most one driver for each
\* instrument type; a call for a type that is in the map returns without
\* raising, leaves the map as it is and opens no connection; a call for a
\* type with no configured address raises ValueError and adds no entry, as
\* does a call whose connection cannot be opened; any other call adds the
\* one entry of its type; and after close_all the map is empty
C38_OneDriverPerType ==
    [][/\ \A i, j \in DOMAIN instruments' :
              instruments'[i] = instruments'[j] => i = j
       /\ IsGetCall =>
              LET inst_type == last_call'.terminal
              IN /\ inst_type \in Range(instruments)
                     => /\ last_call'.raised = ""
                        /\ instruments' = instruments
                        /\ Connections' = Connections
                        /\ failed' = failed
                 /\ inst_type \notin DEFAULT_ADDRESSES
                     => /\ last_call'.raised = "ValueError"
                        /\ instruments' = instruments
                 /\ last_call'.raised # "" => instruments' = instruments
                 /\ (inst_type \notin Range(instruments)
                     /\ last_call'.raised = "")
                     => instruments' = Append(instruments, inst_type)
       /\ (calls' = calls + 1 /\ last_call'.op = "close_all")
              => /\ instruments' = <<>>
                 /\ Len(closed') = Len(closed) + Len(instruments)]_vars

\* the same type has been asked for twice: the second call found the driver
\* of the first and opened nothing
C38_Witness ==
    /\ calls = 2
    /\ last_call.op = "_get_instrument"
    /\ last_call.raised = ""
    /\ instruments = <<last_call.terminal>>
    /\ closed = <<>>
    /\ failed = <<>>

====
